---- MODULE Spec2Model ----
(***************************************************************************)
(* Dual-store write orchestration of the solutions service                 *)
(* (backend/app/main.py, crud.py, es.py, es_docs.py): the relational       *)
(* ledger (solutions, solution_votes), the search index, and the request   *)
(* handlers that write to both.  Every await of a handler that touches a   *)
(* store is one step; a store call either takes effect or raises.          *)
(***************************************************************************)
EXTENDS Integers, FiniteSets, Sequences, TLC

\* ------------------------------------------------------------------ bounds
NumUsers == 3
NumKeys == 2
MaxSols == 4
MaxReqs == 2
MaxOps == 2
MaxSerialOps == 3
MaxVoteOps == 4
DailyLimit == 2
QuotaReqs == 2
MaxRaceOps == 2
NumSubs == 1
MaxRawKeys == 2
MaxKeyOps == 2
MaxDeliveries == 2
MaxEmbedCreates == 1
MaxSlashes == 1

\* worker.EMBEDDING_RETRY_MAX (default)
EMBEDDING_RETRY_MAX == 3

Users == 1..NumUsers
Keys == 1..NumKeys
SolIds == 1..MaxSols
Reqs == 1..(IF MaxReqs > QuotaReqs THEN MaxReqs ELSE QuotaReqs)

\* visibility.py
VISIBILITY_PRIVATE == "private"
VISIBILITY_TEAM == "team"
VISIBILITY_VALUES == {VISIBILITY_PRIVATE, VISIBILITY_TEAM}

\* The owner of an API key: key k belongs to user k (users beyond NumKeys
\* hold no key and authenticate with a session token only).
KeyOwner(k) == ((k - 1) % NumUsers) + 1
KeysOf(u) == {k \in Keys : KeyOwner(k) = u}

\* KeyScope.daily_limit of a key: key 1 carries a quota, the others none.
NoLimit == 0 - 1
KeyDailyLimit(k) == IF k = 1 THEN DailyLimit ELSE NoLimit

VARIABLES
  ledger,   \* solutions table: id -> row, for the ids that have a row
  votes,    \* solution_votes table: set of rows [id, solution_id, user_id, value]
  index,    \* search index: id -> document, for the ids that have a document
  rq,       \* per request slot: handler position and the handler's locals
  lock,     \* pg advisory xact locks: key -> holding request (0 = free)
  nextId,   \* next unused solution id (uuid4 never repeats)
  knn,      \* _knn_enabled(): process configuration, fixed at startup
  started,  \* number of requests accepted so far
  rt,       \* observer: progress of a cast / change / clear sequence
  acc,      \* inputs and results of one evaluation of the access predicates
  api_keys,      \* api_keys table: root key id -> row
  sub_api_keys,  \* sub_api_keys table: sub-key id -> row, for the issued ids
  sc,       \* credentials of one request and the scope resolved from them
  kr,       \* the key-management request in progress
  jb,       \* the background embedding job of the queue and its executions
  rm,       \* one federated search request and the target resolved for it
  se        \* one local search request: its index queries and repairs

coreVars == <<ledger, votes, index, rq, lock, nextId, knn, started>>
keyVars == <<api_keys, sub_api_keys, sc, kr>>
sideVars == <<jb, rm, se>>
vars == <<ledger, votes, index, rq, lock, nextId, knn, started, rt, acc, keyVars,
          sideVars>>

\* ------------------------------------------------------------ rows and docs
\* models.Solution, reduced to the columns the handlers read or write; title
\* stands for the immutable content columns.
Row(id, user, key, vis, up, down, status) ==
  [id |-> id, user_id |-> user, api_key_id |-> key, title |-> "content",
   visibility |-> vis, upvotes |-> up, downvotes |-> down,
   embedding_status |-> status, embedding |-> FALSE, embedding_error |-> "",
   embedding_updated_at |-> IF status \in {"", "pending"} THEN 0 ELSE 1]

NoSol == Row(0, 0, 0, "", 0, 0, "")

\* es_docs.solution_to_es_doc: the document built from a row; the embedding
\* field is present only when an embedding is passed.
solution_to_es_doc(solution, withEmbedding) ==
  LET base == [id |-> solution.id, user_id |-> solution.user_id,
               api_key_id |-> solution.api_key_id, title |-> solution.title,
               visibility |-> solution.visibility,
               upvotes |-> solution.upvotes, downvotes |-> solution.downvotes]
  IN IF withEmbedding
       THEN [f \in DOMAIN base \cup {"embedding"} |->
               IF f = "embedding" THEN "vec" ELSE base[f]]
       ELSE base

\* es.index_solution_es: PUT _doc/{id} creates or replaces the document.
IndexPut(idx, id, doc) ==
  [i \in DOMAIN idx \cup {id} |-> IF i = id THEN doc ELSE idx[i]]

\* es.update_solution_es: POST _update/{id} with doc_as_upsert: merges the
\* payload into the document, creating it from the payload when absent.
IndexUpsert(idx, id, payload) ==
  LET old == IF id \in DOMAIN idx THEN idx[id] ELSE payload
      new == [f \in DOMAIN old \cup DOMAIN payload |->
                IF f \in DOMAIN payload THEN payload[f] ELSE old[f]]
  IN [i \in DOMAIN idx \cup {id} |-> IF i = id THEN new ELSE idx[i]]

\* es.delete_solution_es: DELETE _doc/{id}; an absent document (404) is fine.
IndexDelete(idx, id) == [i \in DOMAIN idx \ {id} |-> idx[i]]

LedgerPut(led, row) ==
  [i \in DOMAIN led \cup {row.id} |-> IF i = row.id THEN row ELSE led[i]]

LedgerDelete(led, id) == [i \in DOMAIN led \ {id} |-> led[i]]

\* ------------------------------------------------------------ request slots
IdleReq ==
  [op |-> "none", pc |-> "idle", user |-> 0, key |-> 0, ids |-> {},
   admin |-> FALSE, sid |-> 0, vis |-> "", value |-> 0, sol |-> NoSol,
   existing |-> 0, existingId |-> 0, embedding |-> FALSE, seen |-> 0,
   seq |-> 0,
   preIdx |-> {}, esFailed |-> FALSE, outcome |-> ""]

Idle(r) == rq[r].pc = "idle"
Done(r) == rq[r].pc = "done"
InFlight(r) == ~Idle(r) /\ ~Done(r)
Quiescent == \A r \in Reqs : ~InFlight(r)

Finish(r, req, outcome) ==
  [rq EXCEPT ![r] = [req EXCEPT !.pc = "done", !.outcome = outcome]]

\* The advisory lock is transaction scoped: it goes when the transaction of
\* the holding session commits, rolls back or the session closes.
Unlock(r) == [k \in Keys |-> IF lock[k] = r THEN 0 ELSE lock[k]]

\* ------------------------------------------------------------------ create
\* main.require_solution_write_scope, API-key branch: the write context of
\* key k (no sub-keys issued).
WriteScope(k) ==
  [user |-> KeyOwner(k), key |-> k, ids |-> {k}, admin |-> FALSE]

\* main._count_solutions_since: rows owned by the key (all rows of a run are
\* created within one UTC day).
CountSolutionsSince(k) ==
  Cardinality({i \in DOMAIN ledger : ledger[i].api_key_id = k})

\* POST /solutions accepted: scope resolved, visibility normalised
\* (payload.visibility or private), id drawn by generate_id.
StartCreate(r, k, vis) ==
  /\ Idle(r)
  /\ nextId <= MaxSols
  /\ LET w == WriteScope(k)
     IN rq' = [rq EXCEPT ![r] =
                 [IdleReq EXCEPT !.op = "create", !.pc = "c_lock",
                                 !.user = w.user, !.key = w.key, !.ids = w.ids,
                                 !.admin = w.admin, !.sid = nextId, !.vis = vis,
                                 !.seq = started + 1]]
  /\ nextId' = nextId + 1
  /\ started' = started + 1
  /\ UNCHANGED <<ledger, votes, index, lock, knn, rt, acc, keyVars, sideVars>>

\* EnforceLock without the wait: the count is taken whether or not another
\* transaction holds the lock of the key.
EnforceLockNoWait(r) ==
  /\ rq[r].pc = "c_lock"
  /\ IF KeyDailyLimit(rq[r].key) = NoLimit
       THEN /\ rq' = [rq EXCEPT ![r].pc = "c_insert"]
            /\ UNCHANGED lock
       ELSE /\ lock' = [lock EXCEPT ![rq[r].key] = r]
            /\ rq' = [rq EXCEPT ![r].pc = "c_count"]
  /\ UNCHANGED <<ledger, votes, index, nextId, knn, started, rt, acc, keyVars, sideVars>>

\* main._enforce_api_key_limits, first half: no limit, no lock; otherwise
\* SELECT pg_advisory_xact_lock(hash(api_key_id)) blocks while another
\* transaction holds the lock of the same key.
EnforceLock(r) ==
  /\ rq[r].pc = "c_lock"
  /\ IF KeyDailyLimit(rq[r].key) = NoLimit
       THEN /\ rq' = [rq EXCEPT ![r].pc = "c_insert"]
            /\ UNCHANGED lock
       ELSE /\ lock[rq[r].key] = 0
            /\ lock' = [lock EXCEPT ![rq[r].key] = r]
            /\ rq' = [rq EXCEPT ![r].pc = "c_count"]
  /\ UNCHANGED <<ledger, votes, index, nextId, knn, started, rt, acc, keyVars, sideVars>>

\* main._enforce_api_key_limits, second half: count, and 429 when the count
\* has reached the limit (the request ends, its transaction and lock with it).
EnforceCount(r) ==
  /\ rq[r].pc = "c_count"
  /\ LET n == CountSolutionsSince(rq[r].key)
         req == [rq[r] EXCEPT !.seen = n]
     IN IF n >= KeyDailyLimit(rq[r].key)
          THEN /\ rq' = Finish(r, req, "429")
               /\ lock' = Unlock(r)
          ELSE /\ rq' = [rq EXCEPT ![r] = [req EXCEPT !.pc = "c_insert"]]
               /\ UNCHANGED lock
  /\ UNCHANGED <<ledger, votes, index, nextId, knn, started, rt, acc, keyVars, sideVars>>

\* crud.create_solution: db.add, commit, refresh.  The commit ends the
\* transaction, which releases the advisory lock.
CreateInsert(r) ==
  /\ rq[r].pc = "c_insert"
  /\ LET row == Row(rq[r].sid, rq[r].user, rq[r].key, rq[r].vis, 0, 0, "pending")
     IN \E res \in {"ok", "commit_failed", "refresh_failed"} :
          /\ ledger' = IF res = "commit_failed" THEN ledger ELSE LedgerPut(ledger, row)
          /\ rq' = IF res = "ok"
                     THEN [rq EXCEPT ![r].pc = "c_embed", ![r].sol = row]
                     ELSE Finish(r, rq[r], "500")
  /\ lock' = Unlock(r)
  /\ UNCHANGED <<votes, index, nextId, knn, started, rt, acc, keyVars, sideVars>>

\* The UPDATE a session flushes for a loaded row: it names the row by primary
\* key and raises StaleDataError when no row matches.
RowPresent(id) == id \in DOMAIN ledger

\* The outcomes of an embed_text call: a vector, an error raised by the
\* provider (strict mode), or asyncio.wait_for giving up.
EmbedResults == {"vector", "error", "timeout"}

\* str(exc) or exc.__class__.__name__ of the one except branch that handles
\* a provider error and a timeout alike: the message of the failed call
\* (None after a vector).
EmbeddingError(result) ==
  IF result \in {"error", "timeout"} THEN "inline call failed" ELSE ""

\* The embedding block with an embedding failure ending the request.
CreateEmbedBlocking(r, result, committed) ==
  /\ rq[r].pc = "c_embed"
  /\ LET status == IF ~knn THEN "skipped"
                   ELSE IF result = "vector" THEN "done" ELSE "failed"
         sol == [rq[r].sol EXCEPT
                   !.embedding_status = status,
                   !.embedding_error = EmbeddingError(result),
                   !.embedding_updated_at = @ + 1]
         req == [rq[r] EXCEPT !.sol = sol, !.embedding = (result = "vector")]
     IN IF committed /\ RowPresent(sol.id) /\ status # "failed"
          THEN /\ ledger' = [ledger EXCEPT
                               ![sol.id].embedding_status = sol.embedding_status,
                               ![sol.id].embedding_error = sol.embedding_error,
                               ![sol.id].embedding_updated_at =
                                  sol.embedding_updated_at]
               /\ rq' = [rq EXCEPT ![r] = [req EXCEPT !.pc = "c_index"]]
          ELSE /\ UNCHANGED ledger
               /\ rq' = Finish(r, req, "500")
  /\ UNCHANGED <<votes, index, lock, nextId, knn, started, rt, acc, keyVars, sideVars>>

\* main.save_solution, embedding block, for one outcome of the embedding
\* call and of the commit: inline embedding when vector search is on (done
\* with a vector, failed with the error recorded otherwise), skipped when it
\* is off, the timestamp set, then commit.  A failed commit ends the request
\* with 500 and the session's row is dropped with the session.
CreateEmbedOutcome(r, result, committed) ==
  /\ rq[r].pc = "c_embed"
  /\ LET status == IF ~knn THEN "skipped"
                   ELSE IF result = "vector" THEN "done" ELSE "failed"
         sol == [rq[r].sol EXCEPT
                   !.embedding_status = status,
                   !.embedding_error = EmbeddingError(result),
                   !.embedding_updated_at = @ + 1]
         req == [rq[r] EXCEPT !.sol = sol, !.embedding = (result = "vector")]
     IN IF committed /\ RowPresent(sol.id)
          THEN /\ ledger' = [ledger EXCEPT
                               ![sol.id].embedding_status = sol.embedding_status,
                               ![sol.id].embedding_error = sol.embedding_error,
                               ![sol.id].embedding_updated_at =
                                  sol.embedding_updated_at]
               /\ rq' = [rq EXCEPT ![r] = [req EXCEPT !.pc = "c_index"]]
          ELSE /\ UNCHANGED ledger
               /\ rq' = Finish(r, rq[r], "500")
  /\ UNCHANGED <<votes, index, lock, nextId, knn, started, rt, acc, keyVars, sideVars>>

CreateEmbed(r) ==
  \E result \in (IF knn THEN EmbedResults ELSE {"none"}), committed \in BOOLEAN :
    CreateEmbedOutcome(r, result, committed)

\* main.save_solution, index write: PUT of the document built from the
\* session's row and the inline embedding.
CreateIndex(r) ==
  /\ rq[r].pc = "c_index"
  /\ \E ok \in BOOLEAN :
       IF ok
         THEN /\ index' = IndexPut(index, rq[r].sid,
                                   solution_to_es_doc(rq[r].sol, rq[r].embedding))
              /\ rq' = Finish(r, rq[r], "200")
         ELSE /\ UNCHANGED index
              /\ rq' = [rq EXCEPT ![r].pc = "c_comp", ![r].esFailed = TRUE]
  /\ UNCHANGED <<ledger, votes, lock, nextId, knn, started, rt, acc, keyVars, sideVars>>

\* main.save_solution, except branch: db.delete(sol), commit; a failure of
\* that is swallowed (rollback) and 502 is raised either way.
CreateCompensate(r) ==
  /\ rq[r].pc = "c_comp"
  /\ \E ok \in BOOLEAN :
       ledger' = IF ok THEN LedgerDelete(ledger, rq[r].sid) ELSE ledger
  /\ rq' = Finish(r, rq[r], "502")
  /\ UNCHANGED <<votes, index, lock, nextId, knn, started, rt, acc, keyVars, sideVars>>

\* get_session: the session closes when the response has been sent, and the
\* slot serves the next request.
Retire(r) ==
  /\ Done(r)
  /\ rq' = [rq EXCEPT ![r] = IdleReq]
  /\ UNCHANGED <<ledger, votes, index, lock, nextId, knn, started, rt, acc, keyVars, sideVars>>

\* ------------------------------------------------------------------ delete
\* The document the index holds for an id, as a set of at most one document
\* (recorded when a write handler starts, to compare with later).
DocOf(id) == IF id \in DOMAIN index THEN {index[id]} ELSE {}

\* The select of delete_user_solution and set_solution_visibility: the row by
\* id, any row for an admin context, otherwise only a row owned by one of
\* the context's keys.
OwnedRow(sid, ids, admin) ==
  IF sid \in DOMAIN ledger /\ (admin \/ ledger[sid].api_key_id \in ids)
    THEN ledger[sid] ELSE NoSol

\* StartDelete answering 403 for a row that exists and is not the caller's.
StartDeleteForbidden(r, k, sid) ==
  /\ Idle(r)
  /\ LET w == WriteScope(k)
         sol == OwnedRow(sid, w.ids, w.admin)
         req == [IdleReq EXCEPT !.op = "delete", !.user = w.user, !.key = w.key,
                                !.ids = w.ids, !.admin = w.admin, !.sid = sid,
                                !.sol = sol, !.seq = started + 1,
                                !.preIdx = DocOf(sid)]
     IN IF (w.ids = {} /\ ~w.admin) \/ sol = NoSol
          THEN rq' = Finish(r, req, IF sid \in DOMAIN ledger THEN "403" ELSE "404")
          ELSE rq' = [rq EXCEPT ![r] = [req EXCEPT !.pc = "d_es"]]
  /\ started' = started + 1
  /\ UNCHANGED <<ledger, votes, index, lock, nextId, knn, rt, acc, keyVars, sideVars>>

\* DELETE /solutions/{id} accepted: scope resolved, row selected (404 when
\* the context has no keys and is not admin, or no row matches).
StartDelete(r, k, sid) ==
  /\ Idle(r)
  /\ LET w == WriteScope(k)
         sol == OwnedRow(sid, w.ids, w.admin)
         req == [IdleReq EXCEPT !.op = "delete", !.user = w.user, !.key = w.key,
                                !.ids = w.ids, !.admin = w.admin, !.sid = sid,
                                !.sol = sol, !.seq = started + 1,
                                !.preIdx = DocOf(sid)]
     IN IF (w.ids = {} /\ ~w.admin) \/ sol = NoSol
          THEN rq' = Finish(r, req, "404")
          ELSE rq' = [rq EXCEPT ![r] = [req EXCEPT !.pc = "d_es"]]
  /\ started' = started + 1
  /\ UNCHANGED <<ledger, votes, index, lock, nextId, knn, rt, acc, keyVars, sideVars>>

\* main.delete_user_solution: delete_solution_es; a failure ends the request
\* with 502 before the ledger is touched.
DeleteEs(r) ==
  /\ rq[r].pc = "d_es"
  /\ \E ok \in BOOLEAN :
       IF ok
         THEN /\ index' = IndexDelete(index, rq[r].sid)
              /\ rq' = [rq EXCEPT ![r].pc = "d_db"]
         ELSE /\ UNCHANGED index
              /\ rq' = Finish(r, [rq[r] EXCEPT !.esFailed = TRUE], "502")
  /\ UNCHANGED <<ledger, votes, lock, nextId, knn, started, rt, acc, keyVars, sideVars>>

\* main.delete_user_solution: votes and row deleted in one transaction; on a
\* failure the transaction is rolled back and the handler turns to the index.
DeleteDb(r) ==
  /\ rq[r].pc = "d_db"
  /\ \E ok \in BOOLEAN :
       IF ok
         THEN /\ votes' = {v \in votes : v.solution_id # rq[r].sid}
              /\ ledger' = LedgerDelete(ledger, rq[r].sid)
              /\ rq' = Finish(r, rq[r], "200")
         ELSE /\ UNCHANGED <<votes, ledger>>
              /\ rq' = [rq EXCEPT ![r].pc = "d_reindex"]
  /\ UNCHANGED <<index, lock, nextId, knn, started, rt, acc, keyVars, sideVars>>

\* main.delete_user_solution, except branch: index_solution_es(sol.id,
\* solution_to_es_doc(sol)), the document rebuilt from the session's row
\* with no embedding argument.
DeleteReindex(r) ==
  /\ rq[r].pc = "d_reindex"
  /\ \E ok \in BOOLEAN :
       IF ok
         THEN /\ index' = IndexPut(index, rq[r].sid,
                                   solution_to_es_doc(rq[r].sol, FALSE))
              /\ rq' = Finish(r, rq[r], "500 restored")
         ELSE /\ UNCHANGED index
              /\ rq' = Finish(r, rq[r], "500 rollback failed")
  /\ UNCHANGED <<ledger, votes, lock, nextId, knn, started, rt, acc, keyVars, sideVars>>

\* -------------------------------------------------------------- visibility
\* PATCH /solutions/{id}/visibility accepted: row selected, and the request
\* returns at once when the requested visibility is the current one.
StartVisibility(r, k, sid, vis) ==
  /\ Idle(r)
  /\ LET w == WriteScope(k)
         sol == OwnedRow(sid, w.ids, w.admin)
         req == [IdleReq EXCEPT !.op = "visibility", !.user = w.user,
                                !.key = w.key, !.ids = w.ids, !.admin = w.admin,
                                !.sid = sid, !.vis = vis, !.sol = sol,
                                !.seq = started + 1, !.preIdx = DocOf(sid)]
     IN IF (w.ids = {} /\ ~w.admin) \/ sol = NoSol
          THEN rq' = Finish(r, req, "404")
          ELSE IF sol.visibility = vis
                 THEN rq' = Finish(r, req, "200")
                 ELSE rq' = [rq EXCEPT ![r] = [req EXCEPT !.pc = "v_es"]]
  /\ started' = started + 1
  /\ UNCHANGED <<ledger, votes, index, lock, nextId, knn, rt, acc, keyVars, sideVars>>

\* main.set_solution_visibility: update_solution_es with the new visibility.
VisEs(r) ==
  /\ rq[r].pc = "v_es"
  /\ \E ok \in BOOLEAN :
       IF ok
         THEN /\ index' = IndexUpsert(index, rq[r].sid, [visibility |-> rq[r].vis])
              /\ rq' = [rq EXCEPT ![r].pc = "v_db"]
         ELSE /\ UNCHANGED index
              /\ rq' = Finish(r, [rq[r] EXCEPT !.esFailed = TRUE], "502")
  /\ UNCHANGED <<ledger, votes, lock, nextId, knn, started, rt, acc, keyVars, sideVars>>

\* main.set_solution_visibility: sol.visibility = visibility, commit and
\* refresh inside one try; either raising leads to the except branch.
VisDb(r) ==
  /\ rq[r].pc = "v_db"
  /\ \E res \in {"ok", "commit_failed", "refresh_failed"} :
       /\ res # "commit_failed" => RowPresent(rq[r].sid)
       /\ ledger' = IF res = "commit_failed" THEN ledger
                    ELSE [ledger EXCEPT ![rq[r].sid].visibility = rq[r].vis]
       /\ rq' = IF res = "ok" THEN Finish(r, rq[r], "200")
                ELSE [rq EXCEPT ![r].pc = "v_rollback"]
  /\ UNCHANGED <<votes, index, lock, nextId, knn, started, rt, acc, keyVars, sideVars>>

\* main.set_solution_visibility, except branch: update_solution_es with the
\* old visibility (the value the row had when it was selected).
VisRollback(r) ==
  /\ rq[r].pc = "v_rollback"
  /\ \E ok \in BOOLEAN :
       IF ok
         THEN /\ index' = IndexUpsert(index, rq[r].sid,
                                      [visibility |-> rq[r].sol.visibility])
              /\ rq' = Finish(r, rq[r], "500 restored")
         ELSE /\ UNCHANGED index
              /\ rq' = Finish(r, rq[r], "500 rollback failed")
  /\ UNCHANGED <<ledger, votes, lock, nextId, knn, started, rt, acc, keyVars, sideVars>>

\* -------------------------------------------------------------------- votes
\* crud._access_conditions as a predicate over one row: private rows of the
\* context's keys, and team rows when allow_team.
AccessConditions(api_key_ids, allow_team, row) ==
  \/ /\ api_key_ids # {}
     /\ row.api_key_id \in api_key_ids
     /\ row.visibility = VISIBILITY_PRIVATE
  \/ /\ allow_team
     /\ row.visibility = VISIBILITY_TEAM

\* crud.get_solution: the row by id under the access conditions, or None.
GetSolution(sid, api_key_ids, allow_team) ==
  IF sid \in DOMAIN ledger /\ AccessConditions(api_key_ids, allow_team, ledger[sid])
    THEN ledger[sid] ELSE NoSol

\* main.require_solution_read_scope for an identified user: the user's active
\* keys, allow_team set.
ReadScope(u) == [user |-> u, ids |-> KeysOf(u), allow_team |-> TRUE]

\* GET /solutions/{id}: get_solution under the read context, 404 when it
\* returns None, otherwise the row (with the caller's vote) is returned.
fetch_solution(r, u, sid) ==
  /\ Idle(r)
  /\ LET c == ReadScope(u)
         sol == GetSolution(sid, c.ids, c.allow_team)
         req == [IdleReq EXCEPT !.op = "fetch", !.user = u, !.ids = c.ids,
                                !.sid = sid, !.sol = sol, !.seq = started + 1]
     IN rq' = Finish(r, req, IF sol = NoSol THEN "404" ELSE "200")
  /\ started' = started + 1
  /\ UNCHANGED <<ledger, votes, index, lock, nextId, knn, rt, acc, keyVars, sideVars>>

\* Values a vote request may carry (VoteRequest.value is any int).
VoteInputs == {0 - 1, 1, 2}

\* The vote row of (solution, user), as crud selects it.
VoteRows(sid, u) == {v \in votes : v.solution_id = sid /\ v.user_id = u}

\* VoteUp and VoteDown without the retraction of the previous vote.
VoteUpNoRetract(sol, existing, value) ==
  sol.upvotes + (IF value = 1 THEN 1 ELSE 0)

VoteDownNoRetract(sol, existing, value) ==
  sol.downvotes + (IF value = 0 - 1 THEN 1 ELSE 0)

\* Aggregates crud.set_solution_vote computes from the loaded row.
VoteUp(sol, existing, value) ==
  sol.upvotes - (IF existing = 1 THEN 1 ELSE 0) + (IF value = 1 THEN 1 ELSE 0)

VoteDown(sol, existing, value) ==
  sol.downvotes - (IF existing = 0 - 1 THEN 1 ELSE 0)
                + (IF value = 0 - 1 THEN 1 ELSE 0)

\* The UPDATE of the solutions row at commit: the session writes the columns
\* whose value differs from the loaded one, by primary key.
FlushAggregates(led, sol, up, down) ==
  [led EXCEPT ![sol.id].upvotes = IF up # sol.upvotes THEN up ELSE @,
              ![sol.id].downvotes = IF down # sol.downvotes THEN down ELSE @]

\* The flush succeeds only when the row is still there and the CHECK
\* constraints upvotes >= 0, downvotes >= 0 hold.
FlushOk(sol, up, down) ==
  /\ (up # sol.upvotes \/ down # sol.downvotes) => RowPresent(sol.id)
  /\ up >= 0
  /\ down >= 0

\* StartVote without the owner check of set_solution_vote.
StartVoteNoOwnerCheck(r, u, sid, value) ==
  /\ Idle(r)
  /\ LET c == ReadScope(u)
         sol == GetSolution(sid, c.ids, c.allow_team)
         req == [IdleReq EXCEPT !.op = "vote", !.user = u, !.ids = c.ids,
                                !.sid = sid, !.value = value, !.sol = sol,
                                !.seq = started + 1]
     IN IF sol = NoSol
          THEN rq' = Finish(r, req, "404")
          ELSE IF value \notin {0 - 1, 1}
                 THEN rq' = Finish(r, req, "400")
                 ELSE rq' = [rq EXCEPT ![r] = [req EXCEPT !.pc = "vt_existing"]]
  /\ started' = started + 1
  /\ UNCHANGED <<ledger, votes, index, lock, nextId, knn, rt, acc, keyVars, sideVars>>

\* POST /solutions/{id}/vote accepted: get_solution (404), then the two
\* checks of set_solution_vote (400): value in (-1, 1), not the owner.
StartVote(r, u, sid, value) ==
  /\ Idle(r)
  /\ LET c == ReadScope(u)
         sol == GetSolution(sid, c.ids, c.allow_team)
         req == [IdleReq EXCEPT !.op = "vote", !.user = u, !.ids = c.ids,
                                !.sid = sid, !.value = value, !.sol = sol,
                                !.seq = started + 1]
     IN IF sol = NoSol
          THEN rq' = Finish(r, req, "404")
          ELSE IF value \notin {0 - 1, 1} \/ sol.user_id = u
                 THEN rq' = Finish(r, req, "400")
                 ELSE rq' = [rq EXCEPT ![r] = [req EXCEPT !.pc = "vt_existing"]]
  /\ started' = started + 1
  /\ UNCHANGED <<ledger, votes, index, lock, nextId, knn, rt, acc, keyVars, sideVars>>

\* crud.set_solution_vote: select of the existing vote row; an equal vote
\* returns without a commit.
VoteExisting(r) ==
  /\ rq[r].pc = "vt_existing"
  /\ LET e == VoteRows(rq[r].sid, rq[r].user)
     IN IF e = {}
          THEN rq' = [rq EXCEPT ![r].pc = "vt_commit"]
          ELSE \E v \in e :
                 rq' = [rq EXCEPT ![r].existing = v.value, ![r].existingId = v.id,
                                  ![r].pc = IF v.value = rq[r].value
                                              THEN "vt_sync" ELSE "vt_commit"]
  /\ UNCHANGED <<ledger, votes, index, lock, nextId, knn, started, rt, acc, keyVars, sideVars>>

\* VoteCommit without the unique index on (solution_id, user_id).
VoteCommitNoUnique(r) ==
  /\ rq[r].pc = "vt_commit"
  /\ LET q == rq[r]
         up == VoteUp(q.sol, q.existing, q.value)
         down == VoteDown(q.sol, q.existing, q.value)
         old == {v \in votes : v.id = q.existingId /\ v.solution_id = q.sid
                               /\ v.user_id = q.user}
         row == [id |-> q.seq, solution_id |-> q.sid, user_id |-> q.user,
                 value |-> q.value]
         can == /\ FlushOk(q.sol, up, down)
                /\ q.existing # 0 => old # {}
     IN \E ok \in BOOLEAN :
          IF ok /\ can
            THEN /\ votes' = IF q.existing = 0 THEN votes \cup {row}
                             ELSE (votes \ old) \cup
                                  {[v EXCEPT !.value = q.value] : v \in old}
                 /\ ledger' = FlushAggregates(ledger, q.sol, up, down)
                 /\ rq' = [rq EXCEPT ![r].pc = "vt_sync",
                                     ![r].sol.upvotes = up,
                                     ![r].sol.downvotes = down]
            ELSE /\ UNCHANGED <<votes, ledger>>
                 /\ rq' = Finish(r, q, "500")
  /\ UNCHANGED <<index, lock, nextId, knn, started, acc, keyVars, sideVars>>

\* crud.set_solution_vote: commit of the new or changed vote row together
\* with the aggregates computed from the loaded row.  The unique index on
\* (solution_id, user_id) rejects a second row of the pair.
VoteCommit(r) ==
  /\ rq[r].pc = "vt_commit"
  /\ LET q == rq[r]
         up == VoteUp(q.sol, q.existing, q.value)
         down == VoteDown(q.sol, q.existing, q.value)
         old == {v \in votes : v.id = q.existingId /\ v.solution_id = q.sid
                               /\ v.user_id = q.user}
         row == [id |-> q.seq, solution_id |-> q.sid, user_id |-> q.user,
                 value |-> q.value]
         can == /\ FlushOk(q.sol, up, down)
                /\ IF q.existing = 0 THEN VoteRows(q.sid, q.user) = {}
                                     ELSE old # {}
     IN \E ok \in BOOLEAN :
          IF ok /\ can
            THEN /\ votes' = IF q.existing = 0 THEN votes \cup {row}
                             ELSE (votes \ old) \cup
                                  {[v EXCEPT !.value = q.value] : v \in old}
                 /\ ledger' = FlushAggregates(ledger, q.sol, up, down)
                 /\ rq' = [rq EXCEPT ![r].pc = "vt_sync",
                                     ![r].sol.upvotes = up,
                                     ![r].sol.downvotes = down]
            ELSE /\ UNCHANGED <<votes, ledger>>
                 /\ rq' = Finish(r, q, "500")
  /\ UNCHANGED <<index, lock, nextId, knn, started, acc, keyVars, sideVars>>

\* VoteSync with the failure of the index update surfaced to the caller.
VoteSyncStrict(r) ==
  /\ rq[r].pc = "vt_sync"
  /\ \E ok \in BOOLEAN :
       /\ index' = IF ok
                     THEN IndexUpsert(index, rq[r].sid,
                                      [upvotes |-> rq[r].sol.upvotes,
                                       downvotes |-> rq[r].sol.downvotes])
                     ELSE index
       /\ rq' = Finish(r, [rq[r] EXCEPT !.esFailed = ~ok],
                       IF ok THEN "200" ELSE "502")
  /\ UNCHANGED <<ledger, votes, lock, nextId, knn, started, rt, acc, keyVars, sideVars>>

\* main.vote_solution: best-effort update_solution_es with the aggregates of
\* the session's row; a failure is printed and the request succeeds.
VoteSync(r) ==
  /\ rq[r].pc = "vt_sync"
  /\ \E ok \in BOOLEAN :
       /\ index' = IF ok
                     THEN IndexUpsert(index, rq[r].sid,
                                      [upvotes |-> rq[r].sol.upvotes,
                                       downvotes |-> rq[r].sol.downvotes])
                     ELSE index
       /\ rq' = Finish(r, [rq[r] EXCEPT !.esFailed = ~ok], "200")
  /\ UNCHANGED <<ledger, votes, lock, nextId, knn, started, rt, acc, keyVars, sideVars>>

\* DELETE /solutions/{id}/vote accepted: get_solution (404).
StartClear(r, u, sid) ==
  /\ Idle(r)
  /\ LET c == ReadScope(u)
         sol == GetSolution(sid, c.ids, c.allow_team)
         req == [IdleReq EXCEPT !.op = "clear", !.user = u, !.ids = c.ids,
                                !.sid = sid, !.sol = sol, !.seq = started + 1]
     IN IF sol = NoSol
          THEN rq' = Finish(r, req, "404")
          ELSE rq' = [rq EXCEPT ![r] = [req EXCEPT !.pc = "cl_existing"]]
  /\ started' = started + 1
  /\ UNCHANGED <<ledger, votes, index, lock, nextId, knn, rt, acc, keyVars, sideVars>>

\* crud.clear_solution_vote: select of the existing vote row; none returns
\* without a commit.
ClearExisting(r) ==
  /\ rq[r].pc = "cl_existing"
  /\ LET e == VoteRows(rq[r].sid, rq[r].user)
     IN IF e = {}
          THEN rq' = [rq EXCEPT ![r].pc = "cl_sync"]
          ELSE \E v \in e :
                 rq' = [rq EXCEPT ![r].existing = v.value, ![r].existingId = v.id,
                                  ![r].pc = "cl_commit"]
  /\ UNCHANGED <<ledger, votes, index, lock, nextId, knn, started, rt, acc, keyVars, sideVars>>

\* crud.clear_solution_vote: DELETE of the vote row by its id and commit of
\* the aggregates computed from the loaded row.
ClearCommit(r) ==
  /\ rq[r].pc = "cl_commit"
  /\ LET q == rq[r]
         up == VoteUp(q.sol, q.existing, 0)
         down == VoteDown(q.sol, q.existing, 0)
         old == {v \in votes : v.id = q.existingId /\ v.solution_id = q.sid
                               /\ v.user_id = q.user}
     IN \E ok \in BOOLEAN :
          IF ok /\ FlushOk(q.sol, up, down)
            THEN /\ votes' = votes \ old
                 /\ ledger' = FlushAggregates(ledger, q.sol, up, down)
                 /\ rq' = [rq EXCEPT ![r].pc = "cl_sync",
                                     ![r].sol.upvotes = up,
                                     ![r].sol.downvotes = down]
            ELSE /\ UNCHANGED <<votes, ledger>>
                 /\ rq' = Finish(r, q, "500")
  /\ UNCHANGED <<index, lock, nextId, knn, started, acc, keyVars, sideVars>>

\* main.clear_vote_solution: best-effort update_solution_es, as for a vote.
ClearSync(r) ==
  /\ rq[r].pc = "cl_sync"
  /\ \E ok \in BOOLEAN :
       /\ index' = IF ok
                     THEN IndexUpsert(index, rq[r].sid,
                                      [upvotes |-> rq[r].sol.upvotes,
                                       downvotes |-> rq[r].sol.downvotes])
                     ELSE index
       /\ rq' = Finish(r, [rq[r] EXCEPT !.esFailed = ~ok], "200")
  /\ UNCHANGED <<ledger, votes, lock, nextId, knn, started, rt, acc, keyVars, sideVars>>

\* ------------------------------------------------------- access predicates
\* crud._visibility_condition as a predicate over one row; None (no
\* condition, empty result) is FALSE.
VisibilityCondition(visibility, api_key_ids, allow_team, row) ==
  IF visibility = VISIBILITY_TEAM
    THEN allow_team /\ row.visibility = VISIBILITY_TEAM
    ELSE IF visibility = VISIBILITY_PRIVATE
      THEN /\ api_key_ids # {}
           /\ row.visibility = VISIBILITY_PRIVATE
           /\ row.api_key_id \in api_key_ids
      ELSE AccessConditions(api_key_ids, allow_team, row)

\* Index query clauses over one document: term and terms match only a
\* document that carries the field.
Term(doc, field, value) == field \in DOMAIN doc /\ doc[field] = value
Terms(doc, field, values) == field \in DOMAIN doc /\ doc[field] \in values

\* PrivateOfKeys without the terms clause on api_key_id.
PrivateOfAnyKey(doc, api_key_ids) ==
  Term(doc, "visibility", VISIBILITY_PRIVATE)

PrivateOfKeys(doc, api_key_ids) ==
  /\ Term(doc, "visibility", VISIBILITY_PRIVATE)
  /\ Terms(doc, "api_key_id", api_key_ids)

\* es._build_access_filter, evaluated on one document.
BuildAccessFilter(api_key_ids, allow_team, allow_admin, visibility, doc) ==
  IF allow_admin
    THEN IF visibility = VISIBILITY_TEAM
           THEN Term(doc, "visibility", VISIBILITY_TEAM)
           ELSE IF visibility = VISIBILITY_PRIVATE
                  THEN Term(doc, "visibility", VISIBILITY_PRIVATE)
                  ELSE TRUE
    ELSE IF visibility = VISIBILITY_TEAM
      THEN Term(doc, "visibility", VISIBILITY_TEAM)
      ELSE IF visibility = VISIBILITY_PRIVATE
        THEN PrivateOfKeys(doc, api_key_ids)
        ELSE IF allow_team /\ api_key_ids # {}
          THEN \/ Term(doc, "visibility", VISIBILITY_TEAM)
               \/ PrivateOfKeys(doc, api_key_ids)
          ELSE IF allow_team /\ api_key_ids = {}
            THEN Term(doc, "visibility", VISIBILITY_TEAM)
            ELSE PrivateOfKeys(doc, api_key_ids)

\* main.delete_user_solution, the handler's own select: 404 without keys
\* unless admin; an admin selects by id, a key context by id and owner key.
DeleteAdmits(api_key_ids, allow_admin, row) ==
  /\ api_key_ids # {} \/ allow_admin
  /\ allow_admin \/ row.api_key_id \in api_key_ids

\* The explicit visibility filter of a read request: none, or a value
\* normalize_visibility accepts.
VisibilityFilters == {"none"} \cup VISIBILITY_VALUES

AccIdle ==
  [ids |-> {}, allow_team |-> FALSE, allow_admin |-> FALSE, filter |-> "none",
   row |-> NoSol, evaluated |-> FALSE, list |-> FALSE, count |-> 0,
   fetch |-> FALSE, es_fetch |-> FALSE, search |-> FALSE, vote |-> FALSE,
   delete |-> FALSE]

\* One round of the operations that admit a solution for a context, on one
\* stored solution: list_solutions and count_accessible_solutions
\* (_visibility_condition), get_solution as fetch-by-id and as the vote
\* handlers call it (_access_conditions), fetch_solution_es (no explicit
\* filter), search_solutions_es (_build_access_filter) and the select of
\* delete_user_solution.
ReadAll ==
  /\ ~acc.evaluated
  /\ LET doc == solution_to_es_doc(acc.row, FALSE)
         hit == VisibilityCondition(acc.filter, acc.ids, acc.allow_team, acc.row)
     IN acc' = [acc EXCEPT
          !.evaluated = TRUE,
          !.list = hit,
          !.count = IF hit THEN 1 ELSE 0,
          !.fetch = AccessConditions(acc.ids, acc.allow_team, acc.row),
          !.vote = AccessConditions(acc.ids, acc.allow_team, acc.row),
          !.delete = DeleteAdmits(acc.ids, acc.allow_admin, acc.row),
          !.es_fetch = BuildAccessFilter(acc.ids, acc.allow_team, acc.allow_admin,
                                         "none", doc),
          !.search = BuildAccessFilter(acc.ids, acc.allow_team, acc.allow_admin,
                                       acc.filter, doc)]
  /\ UNCHANGED <<ledger, votes, index, rq, lock, nextId, knn, started, rt,
                 keyVars, sideVars>>

\* ------------------------------------------------------------ credentials
\* Sub-key ids follow the root key ids; sub-key s is issued under ParentOf(s)
\* and, as create_sub_api_key writes it, carries its parent's user.
SubIds == (NumKeys + 1)..(NumKeys + NumSubs)
AllKeyIds == Keys \cup SubIds
ParentOf(s) == ((s - NumKeys - 1) % NumKeys) + 1

\* A presented secret is named by the id of the key whose key_hash it
\* matches (hash_key is one-to-one on the secrets in use); UnknownKey is a
\* secret that matches no row.
UnknownKey == 0
Creds == AllKeyIds \cup {UnknownKey}

\* users.User.is_admin: keys are issued to admin users only
\* (require_admin_user), the users without a key are ordinary users.
IsAdmin(u) == KeysOf(u) # {}

\* api_keys.ApiKey and api_keys.SubApiKey rows.
ApiKeyRow(user, revoked) == [user_id |-> user, revoked |-> revoked]

SubApiKeyRow(parent, user, revoked, can_read, can_write) ==
  [parent_api_key_id |-> parent, user_id |-> user, revoked |-> revoked,
   can_read |-> can_read, can_write |-> can_write]

\* api_keys.KeyScope
KeyScope(key_id, user, is_sub, parent, can_read, can_write) ==
  [key_id |-> key_id, api_key_id |-> key_id, user_id |-> user,
   is_sub |-> is_sub, parent_id |-> parent,
   can_read |-> can_read, can_write |-> can_write]

\* The Authorization header: absent, a token jwt.decode accepts (sub = the
\* user), or a bearer value jwt.decode rejects (sub = the secret it carries).
NoBearer == [kind |-> "none", sub |-> 0]
Jwt(u) == [kind |-> "jwt", sub |-> u]
Opaque(c) == [kind |-> "opaque", sub |-> c]
Bearers == {NoBearer} \cup {Jwt(u) : u \in Users} \cup {Opaque(c) : c \in Creds}

\* main._split_api_keys: the keys of X-API-Key and X-API-Keys, here in
\* ascending order (the resolution reads the list through its length,
\* membership and a comparison of every scope with the first one).
RawKeyLists ==
  {q \in UNION {[1..n -> Creds] : n \in 0..MaxRawKeys} :
     \A i \in 1..(Len(q) - 1) : q[i] <= q[i + 1]}

Range(q) == {q[i] : i \in DOMAIN q}

\* resolve_api_keys, the sub-key query without the join on a non-revoked
\* parent.
SubResolvesOrphaned(c) ==
  c \in DOMAIN sub_api_keys /\ ~sub_api_keys[c].revoked

\* resolve_api_keys, the sub-key query: the sub-key is not revoked and its
\* parent row exists and is not revoked.
SubResolves(c) ==
  /\ c \in DOMAIN sub_api_keys
  /\ ~sub_api_keys[c].revoked
  /\ sub_api_keys[c].parent_api_key_id \in DOMAIN api_keys
  /\ ~api_keys[sub_api_keys[c].parent_api_key_id].revoked

\* resolve_api_keys, the root-key query: rows that are not revoked.
RootResolves(c) == c \in DOMAIN api_keys /\ ~api_keys[c].revoked

\* api_keys.resolve_api_keys: one KeyScope per presented secret that matches
\* an active sub-key or an active root key (every key's user exists).
resolve_api_keys(raw_keys) ==
  {KeyScope(c, sub_api_keys[c].user_id, TRUE, sub_api_keys[c].parent_api_key_id,
            sub_api_keys[c].can_read, sub_api_keys[c].can_write) :
     c \in {x \in raw_keys : SubResolves(x)}}
  \cup
  {KeyScope(c, api_keys[c].user_id, FALSE, 0, TRUE, TRUE) :
     c \in {x \in raw_keys : ~SubResolves(x) /\ RootResolves(x)}}

\* api_keys.list_active_api_keys and list_active_sub_api_keys, as id sets.
list_active_api_keys(user) ==
  {k \in DOMAIN api_keys : api_keys[k].user_id = user /\ ~api_keys[k].revoked}

list_active_sub_api_keys(parent_ids) ==
  {x \in DOMAIN sub_api_keys :
     sub_api_keys[x].parent_api_key_id \in parent_ids /\ ~sub_api_keys[x].revoked}

\* A refused resolution (HTTPException with the status) and a context.
Refused(status) ==
  [status |-> status, user_id |-> 0, api_key_ids |-> {}, allow_team |-> FALSE,
   allow_admin |-> FALSE, auth_source |-> "none", write_key_id |-> 0]

Context(user, ids, team, admin, source, write_key) ==
  [status |-> 200, user_id |-> user, api_key_ids |-> ids, allow_team |-> team,
   allow_admin |-> admin, auth_source |-> source, write_key_id |-> write_key]

\* require_solution_read_scope: any(not scope.can_read for scope in key_scopes)
ReadDenied(key_scopes) == \E scope \in key_scopes : ~scope.can_read

\* AllowAdmin without the requirement of a verified bearer token.
AllowAdminAnySource(user, jwt_user_id) == IsAdmin(user)

\* require_solution_read_scope: bool(user.is_admin) and bool(jwt_user_id)
AllowAdmin(user, jwt_user_id) == IsAdmin(user) /\ jwt_user_id # 0

\* require_solution_read_scope setting allow_team for a verified session
\* token only.
ReadScopeTeamByToken(bearer, raw) ==
  LET jwt_user_id == IF bearer.kind = "jwt" THEN bearer.sub ELSE 0
      raw_keys == Range(raw) \cup
                  (IF bearer.kind = "opaque" THEN {bearer.sub} ELSE {})
      key_scopes == resolve_api_keys(raw_keys)
      key_users == {scope.user_id : scope \in key_scopes}
      key_user_id == IF key_scopes = {} THEN 0 ELSE CHOOSE u \in key_users : TRUE
      parent_ids == {scope.key_id : scope \in {x \in key_scopes : ~x.is_sub}}
                    \cup
                    {scope.parent_id : scope \in {x \in key_scopes : x.is_sub}}
      key_ids == {scope.api_key_id : scope \in key_scopes}
                 \cup list_active_sub_api_keys(parent_ids) \cup parent_ids
      user_id == IF jwt_user_id # 0 THEN jwt_user_id ELSE key_user_id
      own == list_active_api_keys(user_id)
      jwt_ids == own \cup list_active_sub_api_keys(own)
  IN IF raw_keys # {} /\ key_scopes = {} THEN Refused(401)
     ELSE IF raw_keys # {} /\ ReadDenied(key_scopes) THEN Refused(403)
     ELSE IF Cardinality(key_users) > 1 THEN Refused(403)
     ELSE IF jwt_user_id # 0 /\ key_user_id # 0 /\ jwt_user_id # key_user_id
       THEN Refused(403)
     ELSE IF user_id = 0 THEN Refused(401)
     ELSE Context(user_id, IF key_ids # {} THEN key_ids ELSE jwt_ids,
                  jwt_user_id # 0, AllowAdmin(user_id, jwt_user_id),
                  IF key_scopes # {} THEN "api_key" ELSE "jwt", 0)

\* main.require_solution_read_scope: the read context of a request, or the
\* status it is refused with.  A bearer value that fails decoding joins the
\* raw keys; allow_team is set where user_id is truthy.
require_solution_read_scope(bearer, raw) ==
  LET jwt_user_id == IF bearer.kind = "jwt" THEN bearer.sub ELSE 0
      raw_keys == Range(raw) \cup
                  (IF bearer.kind = "opaque" THEN {bearer.sub} ELSE {})
      key_scopes == resolve_api_keys(raw_keys)
      key_users == {scope.user_id : scope \in key_scopes}
      key_user_id == IF key_scopes = {} THEN 0 ELSE CHOOSE u \in key_users : TRUE
      parent_ids == {scope.key_id : scope \in {x \in key_scopes : ~x.is_sub}}
                    \cup
                    {scope.parent_id : scope \in {x \in key_scopes : x.is_sub}}
      key_ids == {scope.api_key_id : scope \in key_scopes}
                 \cup list_active_sub_api_keys(parent_ids) \cup parent_ids
      user_id == IF jwt_user_id # 0 THEN jwt_user_id ELSE key_user_id
      own == list_active_api_keys(user_id)
      jwt_ids == own \cup list_active_sub_api_keys(own)
  IN IF raw_keys # {} /\ key_scopes = {} THEN Refused(401)
     ELSE IF raw_keys # {} /\ ReadDenied(key_scopes) THEN Refused(403)
     ELSE IF Cardinality(key_users) > 1 THEN Refused(403)
     ELSE IF jwt_user_id # 0 /\ key_user_id # 0 /\ jwt_user_id # key_user_id
       THEN Refused(403)
     ELSE IF user_id = 0 /\ raw_keys = {} THEN Refused(401)
     ELSE Context(user_id, IF key_ids # {} THEN key_ids ELSE jwt_ids,
                  user_id # 0, AllowAdmin(user_id, jwt_user_id),
                  IF key_scopes # {} THEN "api_key" ELSE "jwt", 0)

\* WriteDenied that never refuses.
WriteDeniedNever(key_scope) == FALSE

\* require_solution_write_scope: not key_scope.can_write
WriteDenied(key_scope) == ~key_scope.can_write

\* WriteContextOfKey giving a sub-key its parent's id as well, the way the
\* read dependency expands a sub-key.
WriteContextWithParent(key_scope) ==
  IF WriteDenied(key_scope) THEN Refused(403)
  ELSE Context(key_scope.user_id,
               {key_scope.api_key_id} \cup
                 (IF key_scope.is_sub THEN {key_scope.parent_id}
                  ELSE list_active_sub_api_keys({key_scope.key_id})),
               FALSE, FALSE, "api_key", key_scope.api_key_id)

\* require_solution_write_scope, both API-key branches: the context of the
\* one resolved key (its own id, and its active sub-keys for a root key).
WriteContextOfKey(key_scope) ==
  IF WriteDenied(key_scope) THEN Refused(403)
  ELSE Context(key_scope.user_id,
               {key_scope.api_key_id} \cup
                 (IF key_scope.is_sub THEN {}
                  ELSE list_active_sub_api_keys({key_scope.key_id})),
               FALSE, FALSE, "api_key", key_scope.api_key_id)

\* main.require_solution_write_scope: more than one raw key is refused; one
\* raw key decides alone (the Authorization header is not read); otherwise a
\* bearer value that fails decoding is tried as a key, and a verified token
\* writes through the user's oldest active key.
require_solution_write_scope(bearer, raw) ==
  LET key_scopes == resolve_api_keys(Range(raw))
      token_scopes == resolve_api_keys({bearer.sub})
      key_items == list_active_api_keys(bearer.sub)
      primary_key == CHOOSE k \in key_items : \A j \in key_items : k <= j
  IN IF Len(raw) > 1 THEN Refused(400)
     ELSE IF Len(raw) = 1
       THEN IF key_scopes = {} THEN Refused(401)
            ELSE WriteContextOfKey(CHOOSE scope \in key_scopes : TRUE)
     ELSE IF bearer.kind = "opaque"
       THEN IF token_scopes = {} THEN Refused(401)
            ELSE WriteContextOfKey(CHOOSE scope \in token_scopes : TRUE)
     ELSE IF bearer.kind = "jwt"
       THEN IF key_items = {} THEN Refused(400)
            ELSE Context(bearer.sub,
                         key_items \cup list_active_sub_api_keys(key_items),
                         FALSE, IsAdmin(bearer.sub), "jwt", primary_key)
     ELSE Refused(401)

\* One request's credentials and the scope resolved from them.
ScIdle ==
  [bearer |-> NoBearer, raw_keys |-> <<>>, kind |-> "none",
   evaluated |-> FALSE, scope |-> Refused(0)]

\* The dependency of the read endpoints (list, count, fetch, search, vote).
ResolveRead ==
  /\ sc.kind = "read" /\ ~sc.evaluated
  /\ sc' = [sc EXCEPT !.evaluated = TRUE,
                      !.scope = require_solution_read_scope(sc.bearer, sc.raw_keys)]
  /\ UNCHANGED <<ledger, votes, index, rq, lock, nextId, knn, started, rt, acc,
                 api_keys, sub_api_keys, kr, sideVars>>

\* The dependency of the write endpoints (create, delete, visibility): the
\* handler body runs only with a context.
ResolveWrite ==
  /\ sc.kind = "write" /\ ~sc.evaluated
  /\ sc' = [sc EXCEPT !.evaluated = TRUE,
                      !.scope = require_solution_write_scope(sc.bearer, sc.raw_keys)]
  /\ UNCHANGED <<ledger, votes, index, rq, lock, nextId, knn, started, rt, acc,
                 api_keys, sub_api_keys, kr, sideVars>>

\* The key-management request slot.
KrIdle ==
  [op |-> "none", pc |-> "idle", key |-> 0, items |-> {}, rows |-> <<>>,
   deleted |-> <<>>, restored |-> 0, failed |-> FALSE, outcome |-> ""]

\* ----------------------------------------------------------- key management
\* kr holds the latest key-management request; the next one is taken up
\* when that one has been answered.
KrFree == kr.pc \in {"idle", "done"}

KrFinish(req, outcome) == [req EXCEPT !.pc = "done", !.outcome = outcome]

\* The frame of a key-management step that leaves the solution stores alone.
solVars == <<ledger, votes, index>>
reqVars == <<rq, lock, nextId, knn, rt, acc, sc, sideVars>>

\* auth.require_admin_user, then the select of the ApiKey row by id and
\* owner: 403 for an ordinary user, 404 when no row matches.
AdminKeyStatus(u, key_id) ==
  IF ~IsAdmin(u) THEN "403"
  ELSE IF key_id \in DOMAIN api_keys /\ api_keys[key_id].user_id = u THEN "ok"
  ELSE "404"

\* The select of the SubApiKey row by id, parent and owner.
SubKeyFound(u, key_id, sub_id) ==
  /\ sub_id \in DOMAIN sub_api_keys
  /\ sub_api_keys[sub_id].parent_api_key_id = key_id
  /\ sub_api_keys[sub_id].user_id = u

\* A permission of a request body: absent (or null), true or false.
PermInputs == {"none", "yes", "no"}

\* _normalize_permissions without the step that turns read on for a key
\* that may write.
normalize_permissions_as_asked(can_read, can_write) ==
  LET read == can_read # "no"
      write == can_write # "no"
  IN [ok |-> read \/ write, can_read |-> read, can_write |-> write]

\* api_keys._normalize_permissions: absent means true, write implies read,
\* and a key with neither permission is refused (400).
normalize_permissions(can_read, can_write) ==
  LET read == can_read # "no"
      write == can_write # "no"
  IN [ok |-> read \/ write, can_read |-> read \/ write, can_write |-> write]

TablePut(table, id, row) ==
  [i \in DOMAIN table \cup {id} |-> IF i = id THEN row ELSE table[i]]

\* api_keys.create_sub_api_key: the parent must be an active key of the
\* admin; the new row takes a fresh id.
CreateSubApiKey(u, key_id, can_read, can_write) ==
  /\ KrFree
  /\ SubIds \ DOMAIN sub_api_keys # {}
  /\ LET sub_id == CHOOSE x \in SubIds \ DOMAIN sub_api_keys :
                     \A y \in SubIds \ DOMAIN sub_api_keys : x <= y
         st == AdminKeyStatus(u, key_id)
         perms == normalize_permissions(can_read, can_write)
         req == [KrIdle EXCEPT !.op = "create_sub", !.key = sub_id]
         row == SubApiKeyRow(key_id, u, FALSE, perms.can_read, perms.can_write)
     IN IF st = "403" THEN kr' = KrFinish(req, "403") /\ UNCHANGED sub_api_keys
        ELSE IF st = "404" \/ api_keys[key_id].revoked
          THEN kr' = KrFinish(req, "404") /\ UNCHANGED sub_api_keys
        ELSE IF ~perms.ok
          THEN kr' = KrFinish(req, "400") /\ UNCHANGED sub_api_keys
        ELSE \E ok \in BOOLEAN :
               IF ok THEN /\ sub_api_keys' = TablePut(sub_api_keys, sub_id, row)
                          /\ kr' = KrFinish(req, "200")
                     ELSE /\ UNCHANGED sub_api_keys
                          /\ kr' = KrFinish(req, "500")
  /\ started' = started + 1
  /\ UNCHANGED <<solVars, reqVars, api_keys>>

\* api_keys.update_sub_api_key: the permissions named in the body replace
\* the row's, normalised together with the ones kept; commit, then refresh.
UpdateSubApiKey(u, key_id, sub_id, can_read, can_write) ==
  /\ KrFree
  /\ LET st == AdminKeyStatus(u, key_id)
         req == [KrIdle EXCEPT !.op = "update_sub", !.key = sub_id]
         Kept(flag) == IF flag THEN "yes" ELSE "no"
     IN IF st # "ok" THEN kr' = KrFinish(req, st) /\ UNCHANGED sub_api_keys
        ELSE IF ~SubKeyFound(u, key_id, sub_id)
          THEN kr' = KrFinish(req, "404") /\ UNCHANGED sub_api_keys
        ELSE LET item == sub_api_keys[sub_id]
                 named == can_read # "none" \/ can_write # "none"
                 perms == normalize_permissions(
                            IF can_read # "none" THEN can_read ELSE Kept(item.can_read),
                            IF can_write # "none" THEN can_write ELSE Kept(item.can_write))
                 row == IF named THEN [item EXCEPT !.can_read = perms.can_read,
                                                   !.can_write = perms.can_write]
                        ELSE item
             IN IF named /\ ~perms.ok
                  THEN kr' = KrFinish(req, "400") /\ UNCHANGED sub_api_keys
                  ELSE \E res \in {"ok", "commit_failed", "refresh_failed"} :
                         /\ sub_api_keys' = IF res = "commit_failed" THEN sub_api_keys
                                            ELSE TablePut(sub_api_keys, sub_id, row)
                         /\ kr' = KrFinish(req, IF res = "ok" THEN "200" ELSE "500")
  /\ started' = started + 1
  /\ UNCHANGED <<solVars, reqVars, api_keys>>

\* api_keys.revoke_sub_api_key: item.revoked = True and commit.
RevokeSubApiKey(u, key_id, sub_id) ==
  /\ KrFree
  /\ LET st == AdminKeyStatus(u, key_id)
         req == [KrIdle EXCEPT !.op = "revoke_sub", !.key = sub_id]
     IN IF st # "ok" THEN kr' = KrFinish(req, st) /\ UNCHANGED sub_api_keys
        ELSE IF ~SubKeyFound(u, key_id, sub_id)
          THEN kr' = KrFinish(req, "404") /\ UNCHANGED sub_api_keys
        ELSE \E ok \in BOOLEAN :
               IF ok THEN /\ sub_api_keys' = [sub_api_keys EXCEPT ![sub_id].revoked = TRUE]
                          /\ kr' = KrFinish(req, "revoked")
                     ELSE /\ UNCHANGED sub_api_keys
                          /\ kr' = KrFinish(req, "500")
  /\ started' = started + 1
  /\ UNCHANGED <<solVars, reqVars, api_keys>>

\* api_keys.revoke_api_key, entry: the key row is selected, then
\* _cleanup_solutions_for_key selects the solutions created with the key.
\* With none, the handler goes straight to its final commit.
RevokeApiKeyStart(u, key_id) ==
  /\ KrFree
  /\ LET st == AdminKeyStatus(u, key_id)
         req == [KrIdle EXCEPT !.op = "revoke", !.key = key_id]
         items == {i \in DOMAIN ledger : ledger[i].api_key_id = key_id}
     IN IF st # "ok" THEN kr' = KrFinish(req, st)
        ELSE kr' = [req EXCEPT !.items = items,
                               !.rows = [i \in items |-> ledger[i]],
                               !.pc = IF items = {} THEN "commit" ELSE "es"]
  /\ started' = started + 1
  /\ UNCHANGED <<solVars, reqVars, api_keys, sub_api_keys>>

\* _cleanup_solutions_for_key, first loop: one delete_solution_es per item.
\* A failure re-indexes the documents deleted so far and ends with 502.
RevokeEs ==
  /\ kr.pc = "es"
  /\ \E i \in kr.items \ Range(kr.deleted), ok \in BOOLEAN :
       IF ok
         THEN /\ index' = IndexDelete(index, i)
              /\ kr' = [kr EXCEPT !.deleted = Append(@, i),
                                  !.pc = IF kr.items \ Range(kr.deleted) = {i}
                                           THEN "db" ELSE "es"]
         ELSE /\ UNCHANGED index
              /\ kr' = IF kr.deleted = <<>> THEN KrFinish(kr, "502")
                       ELSE [kr EXCEPT !.pc = "restore", !.outcome = "502"]
  /\ UNCHANGED <<ledger, votes, reqVars, started, api_keys, sub_api_keys>>

\* RevokeDb without db.rollback(): a failure leaves the votes deleted.
RevokeDbNoRollback ==
  /\ kr.pc = "db"
  /\ \E ok \in BOOLEAN :
       IF ok
         THEN /\ votes' = {v \in votes : v.solution_id \notin kr.items}
              /\ ledger' = [i \in DOMAIN ledger \ kr.items |-> ledger[i]]
              /\ kr' = [kr EXCEPT !.pc = "commit"]
         ELSE /\ votes' = {v \in votes : v.solution_id \notin kr.items}
              /\ UNCHANGED ledger
              /\ kr' = [kr EXCEPT !.pc = "restore", !.outcome = "500"]
  /\ UNCHANGED <<index, reqVars, started, api_keys, sub_api_keys>>

\* _cleanup_solutions_for_key, the ledger transaction: the votes on the
\* solutions and the solutions themselves are deleted and committed. A failure
\* rolls back, re-indexes every deleted document and ends with 500.
RevokeDb ==
  /\ kr.pc = "db"
  /\ \E ok \in BOOLEAN :
       IF ok
         THEN /\ votes' = {v \in votes : v.solution_id \notin kr.items}
              /\ ledger' = [i \in DOMAIN ledger \ kr.items |-> ledger[i]]
              /\ kr' = [kr EXCEPT !.pc = "commit"]
         ELSE /\ UNCHANGED <<ledger, votes>>
              /\ kr' = [kr EXCEPT !.pc = "restore", !.outcome = "500"]
  /\ UNCHANGED <<index, reqVars, started, api_keys, sub_api_keys>>

\* The rollback loops: index_solution_es(rollback_id, rollback_doc) for each
\* deleted document in order, with the document built from the row before the
\* delete (no embedding); failures are collected and reported at the end.
RevokeRestore ==
  /\ kr.pc = "restore"
  /\ LET i == kr.deleted[kr.restored + 1]
         last == kr.restored + 1 = Len(kr.deleted)
     IN \E ok \in BOOLEAN :
          LET failed == kr.failed \/ ~ok
              req == [kr EXCEPT !.restored = @ + 1, !.failed = failed]
          IN /\ index' = IF ok THEN IndexPut(index, i,
                                             solution_to_es_doc(kr.rows[i], FALSE))
                         ELSE index
             /\ kr' = IF last
                        THEN KrFinish(req, IF failed THEN "rollback_failed"
                                           ELSE kr.outcome)
                        ELSE req
  /\ UNCHANGED <<ledger, votes, reqVars, started, api_keys, sub_api_keys>>

\* api_keys.revoke_api_key, end: item.revoked = True and commit.
RevokeCommit ==
  /\ kr.pc = "commit"
  /\ \E ok \in BOOLEAN :
       IF ok THEN /\ api_keys' = [api_keys EXCEPT ![kr.key].revoked = TRUE]
                  /\ kr' = KrFinish(kr, "revoked")
             ELSE /\ UNCHANGED api_keys
                  /\ kr' = KrFinish(kr, "500")
  /\ UNCHANGED <<solVars, reqVars, started, sub_api_keys>>

\* main.save_solution entered with X-API-Key = c: the write dependency
\* resolves the key (a refusal ends the request with its status), then the
\* handler runs as the context's write key.
save_solution(r, c, vis) ==
  /\ Idle(r)
  /\ nextId <= MaxSols
  /\ LET scope == require_solution_write_scope(NoBearer, <<c>>)
         req == [IdleReq EXCEPT !.op = "create", !.user = scope.user_id,
                                !.key = scope.write_key_id,
                                !.ids = scope.api_key_ids,
                                !.admin = scope.allow_admin,
                                !.sid = nextId, !.vis = vis,
                                !.seq = started + 1]
     IN IF scope.status # 200
          THEN /\ rq' = Finish(r, [req EXCEPT !.sid = 0], "refused")
               /\ UNCHANGED nextId
          ELSE /\ rq' = [rq EXCEPT ![r] = [req EXCEPT !.pc = "c_lock"]]
               /\ nextId' = nextId + 1
  /\ started' = started + 1
  /\ UNCHANGED <<ledger, votes, index, lock, knn, rt, acc, keyVars, sideVars>>

\* main.delete_user_solution entered with X-API-Key = c: the write
\* dependency, then the select of the row by id and the context's keys.
delete_user_solution(r, c, sid) ==
  /\ Idle(r)
  /\ LET scope == require_solution_write_scope(NoBearer, <<c>>)
         sol == OwnedRow(sid, scope.api_key_ids, scope.allow_admin)
         req == [IdleReq EXCEPT !.op = "delete", !.user = scope.user_id,
                                !.key = scope.write_key_id,
                                !.ids = scope.api_key_ids,
                                !.admin = scope.allow_admin, !.sid = sid,
                                !.sol = sol, !.seq = started + 1,
                                !.preIdx = DocOf(sid)]
     IN IF scope.status # 200
          THEN rq' = Finish(r, [req EXCEPT !.sol = NoSol], "refused")
          ELSE IF (scope.api_key_ids = {} /\ ~scope.allow_admin) \/ sol = NoSol
            THEN rq' = Finish(r, req, "404")
            ELSE rq' = [rq EXCEPT ![r] = [req EXCEPT !.pc = "d_es"]]
  /\ started' = started + 1
  /\ UNCHANGED <<ledger, votes, index, lock, nextId, knn, rt, acc, keyVars, sideVars>>

\* main.set_solution_visibility entered with X-API-Key = c: the write
\* dependency, the select of the row, and the return at once when the row
\* has the requested visibility.
set_solution_visibility(r, c, sid, vis) ==
  /\ Idle(r)
  /\ LET scope == require_solution_write_scope(NoBearer, <<c>>)
         sol == OwnedRow(sid, scope.api_key_ids, scope.allow_admin)
         req == [IdleReq EXCEPT !.op = "visibility", !.user = scope.user_id,
                                !.key = scope.write_key_id,
                                !.ids = scope.api_key_ids,
                                !.admin = scope.allow_admin, !.sid = sid,
                                !.vis = vis, !.sol = sol, !.seq = started + 1,
                                !.preIdx = DocOf(sid)]
     IN IF scope.status # 200
          THEN rq' = Finish(r, [req EXCEPT !.sol = NoSol], "refused")
          ELSE IF (scope.api_key_ids = {} /\ ~scope.allow_admin) \/ sol = NoSol
            THEN rq' = Finish(r, req, "404")
            ELSE IF sol.visibility = vis
              THEN rq' = Finish(r, req, "200")
              ELSE rq' = [rq EXCEPT ![r] = [req EXCEPT !.pc = "v_es"]]
  /\ started' = started + 1
  /\ UNCHANGED <<ledger, votes, index, lock, nextId, knn, rt, acc, keyVars, sideVars>>

\* A request arrives with its credentials (the headers main._split_api_keys
\* and HTTPBearer read).
Present(bearer, raw_keys, kind) ==
  /\ sc.kind = "none"
  /\ sc' = [ScIdle EXCEPT !.bearer = bearer, !.raw_keys = raw_keys, !.kind = kind]
  /\ started' = started + 1
  /\ UNCHANGED <<solVars, rq, lock, nextId, knn, rt, acc, api_keys, sub_api_keys, kr,
                 sideVars>>

\* --------------------------------------------------------- embedding worker
\* The queue holds no job.
JbIdle ==
  [sid |-> 0, pc |-> "none", runs |-> 0, deliveries |-> 0, error |-> ""]

\* Federation not configured and no federated search request made.
RmIdle ==
  [REMOTE_CONTEXT8_BASE |-> <<>>, REMOTE_CONTEXT8_API_KEY |-> "",
   REMOTE_CONTEXT8_ALLOW_OVERRIDE |-> FALSE, REMOTE_CONTEXT8_ALLOWED_HOSTS |-> {},
   evaluated |-> FALSE, outcome |-> "", sent_to |-> ""]

\* The frame of a job step that leaves the index alone.
jobFrame == <<votes, rq, lock, nextId, knn, started, rt, acc, keyVars, rm, se>>

\* The message of the exception an execution ended with: each execution's
\* failure has a message of its own.
JobError(run) == "execution " \o ToString(run) \o " failed"

\* datetime.now(timezone.utc) in an execution of the job: later than the
\* create of the row and than every earlier execution.
JobNow == 1 + (jb.deliveries - 1) * (1 + EMBEDDING_RETRY_MAX) + jb.runs

\* No job is in the queue or running.
JobAbsent == jb.pc \in {"none", "succeeded", "stopped"}

\* worker.enqueue_embedding_task: the job is put on the queue with
\* Retry(max=EMBEDDING_RETRY_MAX).
enqueue_embedding_task(sid) ==
  /\ JobAbsent
  /\ jb.deliveries < MaxDeliveries
  /\ jb' = [JbIdle EXCEPT !.sid = sid, !.pc = "queued",
                          !.deliveries = jb.deliveries + 1]
  /\ UNCHANGED <<ledger, index, jobFrame>>

\* rq after an execution raised: the job is scheduled again while retries
\* are left (1 + max executions in all), otherwise it goes to the failed
\* registry.
AfterFailure(job) ==
  [job EXCEPT !.pc = IF job.runs < 1 + EMBEDDING_RETRY_MAX THEN "queued"
                     ELSE "stopped"]

\* JobLoad without the return on a row that is done.
JobLoadAlways ==
  /\ jb.pc = "queued"
  /\ LET job == [jb EXCEPT !.runs = @ + 1, !.error = ""]
     IN jb' = IF jb.sid \notin DOMAIN ledger THEN [job EXCEPT !.pc = "succeeded"]
              ELSE [job EXCEPT !.pc = "mark"]
  /\ UNCHANGED <<ledger, index, jobFrame>>

\* _process_embedding_task_async, the select: a worker takes the job; no row
\* or a row that is done ends the execution at once.
JobLoad ==
  /\ jb.pc = "queued"
  /\ LET job == [jb EXCEPT !.runs = @ + 1, !.error = ""]
     IN jb' = IF jb.sid \notin DOMAIN ledger THEN [job EXCEPT !.pc = "succeeded"]
              ELSE IF ledger[jb.sid].embedding_status = "done"
                THEN [job EXCEPT !.pc = "succeeded"]
              ELSE [job EXCEPT !.pc = "mark"]
  /\ UNCHANGED <<ledger, index, jobFrame>>

\* embedding_status = "processing", embedding_error = None, commit.
JobMark ==
  /\ jb.pc = "mark"
  /\ \E ok \in BOOLEAN :
       IF ok /\ RowPresent(jb.sid)
         THEN /\ ledger' = [ledger EXCEPT ![jb.sid].embedding_status = "processing",
                                           ![jb.sid].embedding_error = ""]
              /\ jb' = [jb EXCEPT !.pc = "embed"]
         ELSE /\ UNCHANGED ledger
              /\ jb' = AfterFailure([jb EXCEPT !.error = JobError(jb.runs)])
  /\ UNCHANGED <<index, jobFrame>>

\* embed_text: a vector, or an exception (the provider's, or the job timeout
\* raised inside the call), which the except branch takes.
JobEmbed ==
  /\ jb.pc = "embed"
  /\ \E result \in {"vector", "error"} :
       jb' = IF result = "vector" THEN [jb EXCEPT !.pc = "store"]
             ELSE [jb EXCEPT !.pc = "fail", !.error = JobError(jb.runs)]
  /\ UNCHANGED <<ledger, index, jobFrame>>

\* vector.add_vector: UPDATE solutions SET embedding and commit, inside the
\* try block.
JobStore ==
  /\ jb.pc = "store"
  /\ \E ok \in BOOLEAN :
       IF ok
         THEN /\ ledger' = IF RowPresent(jb.sid)
                             THEN [ledger EXCEPT ![jb.sid].embedding = TRUE]
                             ELSE ledger
              /\ jb' = [jb EXCEPT !.pc = "finish"]
         ELSE /\ UNCHANGED ledger
              /\ jb' = [jb EXCEPT !.pc = "fail", !.error = JobError(jb.runs)]
  /\ UNCHANGED <<index, jobFrame>>

\* The except branch: failed, the message and the timestamp are committed
\* and the exception is raised again.  When that commit fails its exception
\* leaves the function instead and the row stays as it was.
JobFail ==
  /\ jb.pc = "fail"
  /\ \E ok \in BOOLEAN :
       /\ ledger' = IF ok /\ RowPresent(jb.sid)
                      THEN [ledger EXCEPT ![jb.sid].embedding_status = "failed",
                                          ![jb.sid].embedding_error = jb.error,
                                          ![jb.sid].embedding_updated_at = JobNow]
                      ELSE ledger
       /\ jb' = AfterFailure(jb)
  /\ UNCHANGED <<index, jobFrame>>

\* done, no error and the timestamp are committed; a failure of the commit
\* leaves the function.
JobFinish ==
  /\ jb.pc = "finish"
  /\ \E ok \in BOOLEAN :
       IF ok /\ RowPresent(jb.sid)
         THEN /\ ledger' = [ledger EXCEPT ![jb.sid].embedding_status = "done",
                                           ![jb.sid].embedding_error = "",
                                           ![jb.sid].embedding_updated_at = JobNow]
              /\ jb' = [jb EXCEPT !.pc = "sync"]
         ELSE /\ UNCHANGED ledger
              /\ jb' = AfterFailure([jb EXCEPT !.error = JobError(jb.runs)])
  /\ UNCHANGED <<index, jobFrame>>

\* update_solution_es(solution_id, {"embedding": vector}); a failure is
\* counted and printed, and the job has succeeded either way.
JobSync ==
  /\ jb.pc = "sync"
  /\ \E ok \in BOOLEAN :
       index' = IF ok THEN IndexUpsert(index, jb.sid, [embedding |-> "vec"])
                ELSE index
  /\ jb' = [jb EXCEPT !.pc = "succeeded"]
  /\ UNCHANGED <<ledger, jobFrame>>

JobStep ==
  \/ JobLoad
  \/ JobMark
  \/ JobEmbed
  \/ JobStore
  \/ JobFail
  \/ JobFinish
  \/ JobSync

\* ------------------------------------------------------------ local search
\* No local search request.
SeIdle ==
  [pc |-> "idle", ids |-> {}, allow_team |-> FALSE, visibility |-> "none",
   attempt |-> 0, queries |-> 0, repairs |-> 0, last |-> "", outcome |-> "",
   hits |-> {}]

seFrame ==
  <<ledger, votes, index, rq, lock, nextId, knn, started, rt, acc, keyVars, jb, rm>>

\* What one call of search_solutions_es under wait_for can come to: a
\* response, None (no ES_URL), asyncio.TimeoutError, HTTPStatusError with
\* status 404, or another exception.
SearchResults == {"response", "none", "timeout", "missing", "error"}

\* es.search_solutions_es: the ids of the documents the access filter admits.
search_solutions_es(api_key_ids, allow_team, allow_admin, visibility) ==
  {i \in DOMAIN index :
     BuildAccessFilter(api_key_ids, allow_team, allow_admin, visibility, index[i])}

\* POST /search with source local accepted: the read context of the user
\* and the explicit visibility filter; _search_es enters its loop.
StartSearch(u, visibility) ==
  /\ se.pc \in {"idle", "done"}
  /\ LET c == ReadScope(u)
     IN se' = [SeIdle EXCEPT !.pc = "query", !.ids = c.ids,
                             !.allow_team = c.allow_team,
                             !.visibility = visibility, !.attempt = 1]
  /\ UNCHANGED seFrame

\* _search_es with the repair tried on every missing index, the second
\* attempt's included.
SearchAttemptAlways ==
  /\ se.pc = "query"
  /\ \E result \in SearchResults :
       LET q == [se EXCEPT !.queries = @ + 1, !.last = result]
       IN se' =
            IF result = "response"
              THEN [q EXCEPT !.pc = "done", !.outcome = "200",
                             !.hits = search_solutions_es(se.ids, se.allow_team,
                                                          FALSE, se.visibility)]
            ELSE IF result = "none" THEN [q EXCEPT !.pc = "done", !.outcome = "503"]
            ELSE IF result = "timeout" THEN [q EXCEPT !.pc = "done", !.outcome = "503"]
            ELSE IF result = "missing" THEN [q EXCEPT !.pc = "ensure"]
            ELSE [q EXCEPT !.pc = "done", !.outcome = "502"]
  /\ UNCHANGED seFrame

\* _search_es, one turn of `for attempt in (1, 2)`: the query under
\* wait_for; a response ends the loop (a None response is 503), a timeout
\* is 503, a missing index on the first attempt leads to the repair, every
\* other failure is 502.
SearchAttempt ==
  /\ se.pc = "query"
  /\ \E result \in SearchResults :
       LET q == [se EXCEPT !.queries = @ + 1, !.last = result]
       IN se' =
            IF result = "response"
              THEN [q EXCEPT !.pc = "done", !.outcome = "200",
                             !.hits = search_solutions_es(se.ids, se.allow_team,
                                                          FALSE, se.visibility)]
            ELSE IF result = "none" THEN [q EXCEPT !.pc = "done", !.outcome = "503"]
            ELSE IF result = "timeout" THEN [q EXCEPT !.pc = "done", !.outcome = "503"]
            ELSE IF result = "missing" /\ se.attempt = 1 THEN [q EXCEPT !.pc = "ensure"]
            ELSE [q EXCEPT !.pc = "done", !.outcome = "502"]
  /\ UNCHANGED seFrame

\* ensure_es_index, the repair: it creates the index when it is missing, or
\* raises; _search_es goes on to the next attempt, or answers 502.
ensure_es_index ==
  /\ se.pc = "ensure"
  /\ \E ok \in BOOLEAN :
       se' = IF ok THEN [se EXCEPT !.repairs = @ + 1, !.pc = "query",
                                   !.attempt = @ + 1]
             ELSE [se EXCEPT !.repairs = @ + 1, !.pc = "done", !.outcome = "502"]
  /\ UNCHANGED seFrame

\* -------------------------------------------------------------- federation
\* A base URL is the sequence of its parts: scheme, host, then trailing
\* slashes.  The empty sequence stands for None and for the empty string,
\* which remote.py treats alike (both are falsy).
Schemes == {"http://", "https://", "ftp://"}

\* Hosts as they are written in a URL.
HostTokens == {"localhost", "LocalHost", "[::1]", "peer.example", "10.0.0.5"}

Slashes(n) == [i \in 1..n |-> "/"]

Bases ==
  {<<>>}
    \cup {<<s>> \o Slashes(n) : s \in Schemes, n \in 0..MaxSlashes}
    \cup {<<s, h>> \o Slashes(n) : s \in Schemes, h \in HostTokens,
                                   n \in 0..MaxSlashes}

\* str.rstrip("/"): the trailing slashes go, those of a bare scheme included.
RECURSIVE RStrip(_)
RStrip(value) ==
  IF value = <<>> THEN value
  ELSE IF value[Len(value)] = "/" THEN RStrip(SubSeq(value, 1, Len(value) - 1))
  ELSE IF value[Len(value)] = "http://" THEN SubSeq(value, 1, Len(value) - 1) \o <<"http:">>
  ELSE IF value[Len(value)] = "https://" THEN SubSeq(value, 1, Len(value) - 1) \o <<"https:">>
  ELSE IF value[Len(value)] = "ftp://" THEN SubSeq(value, 1, Len(value) - 1) \o <<"ftp:">>
  ELSE value

\* remote._normalize_base
_normalize_base(value) == IF value = <<>> THEN <<>> ELSE RStrip(value)

\* urlparse(base).hostname.lower(): lower case, an IPv6 literal without its
\* brackets; "" stands for None.
_host_from_base(base) ==
  IF Len(base) < 2 \/ base[1] \notin Schemes THEN ""
  ELSE IF base[2] = "LocalHost" THEN "localhost"
  ELSE IF base[2] = "[::1]" THEN "::1"
  ELSE IF base[2] \in HostTokens THEN base[2]
  ELSE ""

\* remote._is_local_host
_is_local_host(hostname) == hostname \in {"localhost", "127.0.0.1", "::1"}

\* remote._validate_remote_host: TRUE when it returns, FALSE when it raises
\* 403.
_validate_remote_host(base_host, override_active) ==
  IF rm.REMOTE_CONTEXT8_ALLOWED_HOSTS # {}
    THEN base_host \in rm.REMOTE_CONTEXT8_ALLOWED_HOSTS
    ELSE ~(override_active /\ ~_is_local_host(base_host))

\* remote.resolve_remote_config: the base and key to use, or the status of
\* the HTTPException raised.
resolve_remote_config(override_base, override_key) ==
  LET override_active == rm.REMOTE_CONTEXT8_ALLOW_OVERRIDE /\ override_base # <<>>
      first == _normalize_base(IF override_active THEN override_base ELSE <<>>)
      base == IF first # <<>> THEN first
              ELSE _normalize_base(rm.REMOTE_CONTEXT8_BASE)
      own == IF rm.REMOTE_CONTEXT8_ALLOW_OVERRIDE THEN override_key ELSE ""
      api_key == IF own # "" THEN own ELSE rm.REMOTE_CONTEXT8_API_KEY
      base_host == _host_from_base(base)
      status ==
        IF base = <<>> THEN "400"
        ELSE IF api_key = "" THEN "401"
        ELSE IF base[1] \notin {"http://", "https://"} THEN "400"
        ELSE IF base_host = "" THEN "400"
        ELSE IF ~_validate_remote_host(base_host, override_active) THEN "403"
        ELSE "ok"
  IN [status |-> status, base |-> base, api_key |-> api_key]

\* main.search with source remote or all: resolve_remote_config, then
\* remote_search posts to {base}/search; a peer status of 400 or more
\* becomes 502.
remote_search(override_base, override_key) ==
  /\ LET cfg == resolve_remote_config(override_base, override_key)
     IN \E resp \in {"200", "502"} :
          rm' = [rm EXCEPT !.evaluated = TRUE,
                           !.outcome = IF cfg.status = "ok" THEN resp
                                       ELSE cfg.status,
                           !.sent_to = IF cfg.status = "ok"
                                         THEN _host_from_base(cfg.base) ELSE ""]
  /\ UNCHANGED <<ledger, votes, index, rq, lock, nextId, knn, started, rt, acc,
                 keyVars, jb, se>>

\* -------------------------------------------------------------- behaviours
RtIdle == [stage |-> 0, user |-> 0, sid |-> 0, value |-> 0, up0 |-> 0, down0 |-> 0]

\* A running service: solution 1, owned by key 1 of user 1, created earlier
\* (indexed with its embedding when vector search is on), with the vote of
\* the last user on it as given.
InitStores(visibilities, firstVotes, knnValues) ==
  /\ knn \in knnValues
  /\ \E vis \in visibilities, v \in firstVotes :
       LET row == Row(1, 1, 1, vis, IF v = 1 THEN 1 ELSE 0,
                      IF v = 0 - 1 THEN 1 ELSE 0,
                      IF knn THEN "done" ELSE "skipped")
       IN /\ ledger = (1 :> row)
          /\ votes = IF v = 0 THEN {}
                     ELSE {[id |-> 0, solution_id |-> 1, user_id |-> NumUsers,
                            value |-> v]}
          /\ index = (1 :> solution_to_es_doc(row, knn))
  /\ rq = [r \in Reqs |-> IdleReq]
  /\ lock = [k \in Keys |-> 0]
  /\ nextId = 2
  /\ started = 0
  /\ kr = KrIdle
  /\ jb = JbIdle
  /\ rm = RmIdle
  /\ se = SeIdle

\* Every root key active and no sub-key issued.
InitKeysPlain ==
  /\ api_keys = [k \in Keys |-> ApiKeyRow(KeyOwner(k), FALSE)]
  /\ sub_api_keys = <<>>
  /\ sc = ScIdle

\* Ids a request may name: every id handed out so far and one unknown id.
Targets == {i \in SolIds : i <= nextId}

\* Slots are interchangeable: a request takes the lowest free slot.
FirstIdle(r, slots) == Idle(r) /\ \A q \in slots : q < r => ~Idle(q)

StartCreateAny(r) ==
  \E k \in Keys, vis \in VISIBILITY_VALUES : StartCreate(r, k, vis)

StartDeleteAny(r) ==
  \E k \in Keys, sid \in Targets : StartDelete(r, k, sid)

StartVisibilityAny(r) ==
  \E k \in Keys, sid \in Targets, vis \in VISIBILITY_VALUES :
    StartVisibility(r, k, sid, vis)

StartVoteAny(r) ==
  \E u \in Users, sid \in Targets, value \in VoteInputs : StartVote(r, u, sid, value)

StartClearAny(r) ==
  \E u \in Users, sid \in Targets : StartClear(r, u, sid)

CreateStep(r) ==
  \/ EnforceLock(r)
  \/ EnforceCount(r)
  \/ CreateInsert(r)
  \/ CreateEmbed(r)
  \/ CreateIndex(r)
  \/ CreateCompensate(r)

DeleteStep(r) == DeleteEs(r) \/ DeleteDb(r) \/ DeleteReindex(r)

VisibilityStep(r) == VisEs(r) \/ VisDb(r) \/ VisRollback(r)

VoteStep(r) ==
  \/ VoteExisting(r)
  \/ VoteCommit(r) /\ UNCHANGED rt
  \/ VoteSync(r)
  \/ ClearExisting(r)
  \/ ClearCommit(r) /\ UNCHANGED rt
  \/ ClearSync(r)

\* Concurrent requests of every kind.
Slots == 1..MaxReqs

Init ==
  /\ InitStores(VISIBILITY_VALUES, {0, 1}, BOOLEAN)
  /\ rt = RtIdle
  /\ acc = AccIdle
  /\ InitKeysPlain

CanStart(r) == started < MaxOps /\ FirstIdle(r, Slots)

Next ==
  \E r \in Slots :
    \/ CanStart(r) /\ StartCreateAny(r)
    \/ CanStart(r) /\ StartDeleteAny(r)
    \/ CanStart(r) /\ StartVisibilityAny(r)
    \/ CanStart(r) /\ StartVoteAny(r)
    \/ CanStart(r) /\ StartClearAny(r)
    \/ CreateStep(r)
    \/ DeleteStep(r)
    \/ VisibilityStep(r)
    \/ VoteStep(r)
    \/ Retire(r)

Spec == Init /\ [][Next]_vars

\* Write requests (create, delete, visibility update) one at a time.
InitWrite ==
  /\ InitStores(VISIBILITY_VALUES, {0, 1}, BOOLEAN)
  /\ rt = RtIdle
  /\ acc = AccIdle
  /\ InitKeysPlain

NextWrite ==
  \/ started < MaxSerialOps /\ StartCreateAny(1)
  \/ started < MaxSerialOps /\ StartDeleteAny(1)
  \/ started < MaxSerialOps /\ StartVisibilityAny(1)
  \/ CreateStep(1)
  \/ DeleteStep(1)
  \/ VisibilityStep(1)
  \/ Retire(1)

SpecWrite == InitWrite /\ [][NextWrite]_vars

\* Create requests running concurrently (no deletion other than a create's
\* own compensation).
QuotaSlots == 1..QuotaReqs

InitQuota ==
  /\ InitStores({VISIBILITY_PRIVATE}, {0}, BOOLEAN)
  /\ rt = RtIdle
  /\ acc = AccIdle
  /\ InitKeysPlain

NextQuota ==
  \E r \in QuotaSlots :
    \/ /\ started < QuotaReqs
       /\ FirstIdle(r, QuotaSlots)
       /\ StartCreateAny(r)
    \/ CreateStep(r)

SpecQuota == InitQuota /\ [][NextQuota]_vars

\* The read operations on every context and every stored solution.
InitAccess ==
  /\ InitStores({VISIBILITY_PRIVATE}, {0}, {FALSE})
  /\ rt = RtIdle
  /\ InitKeysPlain
  /\ \E ids \in SUBSET Keys, team \in BOOLEAN, admin \in BOOLEAN,
        f \in VisibilityFilters, k \in Keys, vis \in VISIBILITY_VALUES :
       acc = [AccIdle EXCEPT !.ids = ids, !.allow_team = team,
                             !.allow_admin = admin, !.filter = f,
                             !.row = Row(1, KeyOwner(k), k, vis, 0, 0, "skipped")]

NextAccess == ReadAll

SpecAccess == InitAccess /\ [][NextAccess]_vars

\* Vote and clear-vote requests one at a time, with the observer of the
\* sequence: first cast of v by a user, change to the opposite vote, clear.
\* A commit that changes the vote table moves the observer; up0 and down0
\* are the ledger's aggregates just before the first cast commits.
RtObserve ==
  IF votes' = votes
    THEN rt' = rt
    ELSE LET q == rq[1]
             same == q.user = rt.user /\ q.sid = rt.sid
         IN IF q.op = "vote" /\ q.existing = 0
              THEN rt' = [stage |-> 1, user |-> q.user, sid |-> q.sid,
                          value |-> q.value,
                          up0 |-> ledger[q.sid].upvotes,
                          down0 |-> ledger[q.sid].downvotes]
              ELSE IF q.op = "vote" /\ rt.stage = 1 /\ same /\ q.value = 0 - rt.value
                THEN rt' = [rt EXCEPT !.stage = 2]
                ELSE IF q.op = "clear" /\ rt.stage = 2 /\ same
                  THEN rt' = [rt EXCEPT !.stage = 3]
                  ELSE rt' = RtIdle

InitVotes ==
  /\ InitStores(VISIBILITY_VALUES, {0 - 1, 0, 1}, BOOLEAN)
  /\ rt = RtIdle
  /\ acc = AccIdle
  /\ InitKeysPlain

NextVotes ==
  \/ started < MaxVoteOps /\ StartVoteAny(1)
  \/ started < MaxVoteOps /\ StartClearAny(1)
  \/ VoteExisting(1)
  \/ VoteCommit(1) /\ RtObserve
  \/ VoteSync(1)
  \/ ClearExisting(1)
  \/ ClearCommit(1) /\ RtObserve
  \/ ClearSync(1)
  \/ Retire(1)

SpecVotes == InitVotes /\ [][NextVotes]_vars

\* Two visibility updates that overlap: the second is accepted while the
\* first is in flight, and the records of both stay in their slots.
InitOverlap ==
  /\ InitStores(VISIBILITY_VALUES, {0}, {FALSE})
  /\ rt = RtIdle
  /\ acc = AccIdle
  /\ InitKeysPlain

NextOverlap ==
  \/ Idle(1) /\ Idle(2) /\ StartVisibilityAny(1)
  \/ InFlight(1) /\ Idle(2) /\ StartVisibilityAny(2)
  \/ VisibilityStep(1)
  \/ VisibilityStep(2)

SpecOverlap == InitOverlap /\ [][NextOverlap]_vars

\* Vote requests running concurrently on the stored solution; the records of
\* finished requests stay in their slots.
InitRace ==
  /\ InitStores({VISIBILITY_TEAM}, {0, 1}, {FALSE})
  /\ rt = RtIdle
  /\ acc = AccIdle
  /\ InitKeysPlain

NextRace ==
  \E r \in Slots :
    \/ started < MaxRaceOps /\ FirstIdle(r, Slots) /\ StartVoteAny(r)
    \/ VoteExisting(r)
    \/ VoteCommit(r) /\ UNCHANGED rt
    \/ VoteSync(r)

SpecRace == InitRace /\ [][NextRace]_vars

\* Scope resolution over every key table and every set of credentials.  The
\* can_read and can_write columns range over the values the columns admit.
InitScope ==
  /\ InitStores({VISIBILITY_PRIVATE}, {0}, {FALSE})
  /\ rt = RtIdle
  /\ acc = AccIdle
  /\ api_keys \in [Keys -> {ApiKeyRow(u, rev) : u \in Users, rev \in BOOLEAN}]
  /\ \A k \in Keys : api_keys[k].user_id = KeyOwner(k)
  /\ sub_api_keys \in
       [SubIds -> {SubApiKeyRow(p, u, rev, cr, cw) :
                     p \in Keys, u \in Users, rev \in BOOLEAN,
                     cr \in BOOLEAN, cw \in BOOLEAN}]
  /\ \A x \in SubIds : /\ sub_api_keys[x].parent_api_key_id = ParentOf(x)
                        /\ sub_api_keys[x].user_id = KeyOwner(ParentOf(x))
  /\ \E b \in Bearers, raw \in RawKeyLists, kind \in {"read", "write"} :
       sc = [ScIdle EXCEPT !.bearer = b, !.raw_keys = raw, !.kind = kind]

NextScope == ResolveRead \/ ResolveWrite

SpecScope == InitScope /\ [][NextScope]_vars

\* Key management: the admin routes of api_keys.py on a ledger of two
\* solutions, interleaved with requests that present one credential.  Every
\* key starts active; solution 2 was created with a sub-key when one is
\* issued, with a root key otherwise.
InitKeys ==
  /\ knn = FALSE
  /\ api_keys = [k \in Keys |-> ApiKeyRow(KeyOwner(k), FALSE)]
  /\ \E issued \in SUBSET SubIds, cw \in BOOLEAN :
     \E k2 \in Keys \cup issued :
       LET owner == IF k2 \in Keys THEN KeyOwner(k2) ELSE KeyOwner(ParentOf(k2))
           row1 == Row(1, KeyOwner(1), 1, VISIBILITY_TEAM, 0, 0, "skipped")
           row2 == Row(2, owner, k2, VISIBILITY_PRIVATE, 1, 0, "skipped")
       IN /\ sub_api_keys = [x \in issued |->
                               SubApiKeyRow(ParentOf(x), KeyOwner(ParentOf(x)),
                                            FALSE, TRUE, cw)]
          /\ ledger = (1 :> row1) @@ (2 :> row2)
          /\ votes = {[id |-> 0, solution_id |-> 2, user_id |-> NumUsers,
                       value |-> 1]}
          /\ index = (1 :> solution_to_es_doc(row1, FALSE))
                       @@ (2 :> solution_to_es_doc(row2, FALSE))
  /\ rq = [r \in Reqs |-> IdleReq]
  /\ lock = [k \in Keys |-> 0]
  /\ nextId = 3
  /\ started = 0
  /\ rt = RtIdle
  /\ acc = AccIdle
  /\ sc = ScIdle
  /\ kr = KrIdle
  /\ jb = JbIdle
  /\ rm = RmIdle
  /\ se = SeIdle

CanStartKeyOp == started < MaxKeyOps

\* The callers of a route on key k: its owner and one other user.
Callers(k) == {KeyOwner(k), (KeyOwner(k) % NumUsers) + 1}

\* Requests name a sub-key under its parent's path; a request on another
\* user's key is answered like one on a path that matches no row.
NextKeys ==
  \/ CanStartKeyOp /\ \E k \in Keys : \E u \in Callers(k),
                                         cr \in PermInputs, cw \in PermInputs :
       CreateSubApiKey(u, k, cr, cw)
  \/ CanStartKeyOp /\ \E x \in SubIds : \E u \in Callers(ParentOf(x)),
                                           cr \in PermInputs, cw \in PermInputs :
       UpdateSubApiKey(u, ParentOf(x), x, cr, cw)
  \/ CanStartKeyOp /\ \E x \in SubIds : \E u \in Callers(ParentOf(x)) :
       RevokeSubApiKey(u, ParentOf(x), x)
  \/ CanStartKeyOp /\ \E k \in Keys : \E u \in Callers(k) : RevokeApiKeyStart(u, k)
  \/ RevokeEs
  \/ RevokeDb
  \/ RevokeRestore
  \/ RevokeCommit
  \/ CanStartKeyOp /\ \E c \in Creds, kind \in {"read", "write"} :
       \/ Present(NoBearer, <<c>>, kind)
       \/ Present(Opaque(c), <<>>, kind)
  \/ ResolveRead
  \/ ResolveWrite

SpecKeys == InitKeys /\ [][NextKeys]_vars

\* One create presented with a root key, and root-key revocations by the
\* key's owner, in any interleaving.
InitCascade ==
  /\ InitStores({VISIBILITY_PRIVATE}, {0, 1}, BOOLEAN)
  /\ rt = RtIdle
  /\ acc = AccIdle
  /\ InitKeysPlain

NextCascade ==
  \/ CanStartKeyOp /\ \E k \in Keys, vis \in VISIBILITY_VALUES : save_solution(1, k, vis)
  \/ CreateStep(1)
  \/ CanStartKeyOp /\ \E k \in Keys : RevokeApiKeyStart(KeyOwner(k), k)
  \/ RevokeEs
  \/ RevokeDb
  \/ RevokeRestore
  \/ RevokeCommit

SpecCascade == InitCascade /\ [][NextCascade]_vars

\* Deletes and visibility updates presented with one key, one at a time:
\* root key 1 has two sub-keys, each revoked or not, and the ledger holds one
\* solution of key 1, one of each sub-key and one of another root key.
Siblings == {NumKeys + 1, NumKeys + 2}
Owners == <<1, NumKeys + 1, NumKeys + 2, 2>>

InitDelegated ==
  /\ knn = FALSE
  /\ api_keys = [k \in Keys |-> ApiKeyRow(KeyOwner(k), FALSE)]
  /\ \E revoked \in [Siblings -> BOOLEAN], can_write \in [Siblings -> BOOLEAN] :
       sub_api_keys = [x \in Siblings |->
                         SubApiKeyRow(1, KeyOwner(1), revoked[x], TRUE, can_write[x])]
  /\ ledger = [i \in DOMAIN Owners |->
                 Row(i, IF Owners[i] \in Keys THEN KeyOwner(Owners[i]) ELSE KeyOwner(1),
                     Owners[i], VISIBILITY_PRIVATE, 0, 0, "skipped")]
  /\ votes = {}
  /\ index = [i \in DOMAIN Owners |-> solution_to_es_doc(ledger[i], FALSE)]
  /\ rq = [r \in Reqs |-> IdleReq]
  /\ lock = [k \in Keys |-> 0]
  /\ nextId = Len(Owners) + 1
  /\ started = 0
  /\ rt = RtIdle
  /\ acc = AccIdle
  /\ sc = ScIdle
  /\ kr = KrIdle
  /\ jb = JbIdle
  /\ rm = RmIdle
  /\ se = SeIdle

DelegatedCreds == Keys \cup Siblings

NextDelegated ==
  \/ started < MaxKeyOps /\ \E c \in DelegatedCreds, sid \in DOMAIN Owners :
       delete_user_solution(1, c, sid)
  \/ started < MaxKeyOps /\ \E c \in DelegatedCreds, sid \in DOMAIN Owners :
       set_solution_visibility(1, c, sid, VISIBILITY_TEAM)
  \/ DeleteStep(1)
  \/ VisibilityStep(1)
  \/ Retire(1)

SpecDelegated == InitDelegated /\ [][NextDelegated]_vars

\* Creates and the embedding worker on an empty ledger, with vector search
\* on or off; jobs are put on the queue for ids that a create has returned
\* or that name no solution.
InitEmbed ==
  /\ knn \in BOOLEAN
  /\ ledger = <<>>
  /\ index = <<>>
  /\ votes = {}
  /\ rq = [r \in Reqs |-> IdleReq]
  /\ lock = [k \in Keys |-> 0]
  /\ nextId = 1
  /\ started = 0
  /\ rt = RtIdle
  /\ acc = AccIdle
  /\ InitKeysPlain
  /\ kr = KrIdle
  /\ jb = JbIdle
  /\ rm = RmIdle
  /\ se = SeIdle

\* A create works on a row of its own and a job on a row whose create has
\* returned, so their steps commute: a create is taken up when no job is
\* queued or running, and a job is queued when no create is in flight.  The
\* creates are private ones of the key without a daily limit.
NextEmbed ==
  \/ \E r \in Slots :
       /\ started < MaxEmbedCreates
       /\ FirstIdle(r, Slots)
       /\ JobAbsent
       /\ StartCreate(r, NumKeys, VISIBILITY_PRIVATE)
  \/ \E r \in Slots : EnforceLock(r)
  \/ \E r \in Slots : CreateInsert(r)
  \/ \E r \in Slots : CreateEmbed(r)
  \/ \E r \in Slots : CreateIndex(r)
  \/ \E r \in Slots : CreateCompensate(r)
  \/ \E sid \in Targets : Quiescent /\ enqueue_embedding_task(sid)
  \/ JobLoad
  \/ JobMark
  \/ JobEmbed
  \/ JobStore
  \/ JobFail
  \/ JobFinish
  \/ JobSync

SpecEmbed == InitEmbed /\ [][NextEmbed]_vars

\* The same with the scheduling the deployment gives: a request handler that
\* can take a step takes one, and so does the worker.  Nothing obliges
\* anyone to put a job on the queue.
SpecRetry ==
  /\ InitEmbed
  /\ [][NextEmbed]_vars
  /\ WF_vars(\E r \in Slots : CreateStep(r))
  /\ WF_vars(JobStep)

\* Requests that name a solution by id (fetch, vote, clear-vote, delete,
\* visibility update), one at a time, by every caller and for every id,
\* stored or not; the records of finished requests stay in their slots.
InitLeak ==
  /\ InitStores(VISIBILITY_VALUES, {0, 1}, {FALSE})
  /\ rt = RtIdle
  /\ acc = AccIdle
  /\ InitKeysPlain

CanStartLeak(r) == started < MaxSerialOps /\ FirstIdle(r, Slots) /\ Quiescent

NextLeak ==
  \/ \E r \in Slots, u \in Users, sid \in Targets :
       CanStartLeak(r) /\ fetch_solution(r, u, sid)
  \/ \E r \in Slots : CanStartLeak(r) /\ StartVoteAny(r)
  \/ \E r \in Slots : CanStartLeak(r) /\ StartClearAny(r)
  \/ \E r \in Slots : CanStartLeak(r) /\ StartDeleteAny(r)
  \/ \E r \in Slots : CanStartLeak(r) /\ StartVisibilityAny(r)
  \/ \E r \in Slots : VoteExisting(r)
  \/ \E r \in Slots : VoteCommit(r) /\ UNCHANGED rt
  \/ \E r \in Slots : VoteSync(r)
  \/ \E r \in Slots : ClearExisting(r)
  \/ \E r \in Slots : ClearCommit(r) /\ UNCHANGED rt
  \/ \E r \in Slots : ClearSync(r)
  \/ \E r \in Slots : DeleteEs(r)
  \/ \E r \in Slots : DeleteDb(r)
  \/ \E r \in Slots : DeleteReindex(r)
  \/ \E r \in Slots : VisEs(r)
  \/ \E r \in Slots : VisDb(r)
  \/ \E r \in Slots : VisRollback(r)

SpecLeak == InitLeak /\ [][NextLeak]_vars

\* Federated search requests under every configuration of the process
\* (base, key, override flag, allow-list) and every pair of override
\* headers.
AllowLists == {{}, {"peer.example"}, {"localhost", "peer.example"}}

InitRemote ==
  /\ knn = FALSE
  /\ ledger = <<>>
  /\ index = <<>>
  /\ votes = {}
  /\ rq = [r \in Reqs |-> IdleReq]
  /\ lock = [k \in Keys |-> 0]
  /\ nextId = 1
  /\ started = 0
  /\ rt = RtIdle
  /\ acc = AccIdle
  /\ InitKeysPlain
  /\ kr = KrIdle
  /\ jb = JbIdle
  /\ se = SeIdle
  /\ \E base \in Bases, api_key \in {"", "configured"}, allow \in BOOLEAN,
        hosts \in AllowLists :
       rm = [RmIdle EXCEPT !.REMOTE_CONTEXT8_BASE = base,
                           !.REMOTE_CONTEXT8_API_KEY = api_key,
                           !.REMOTE_CONTEXT8_ALLOW_OVERRIDE = allow,
                           !.REMOTE_CONTEXT8_ALLOWED_HOSTS = hosts]

NextRemote ==
  \E override_base \in Bases, override_key \in {"", "header"} :
    remote_search(override_base, override_key)

SpecRemote == InitRemote /\ [][NextRemote]_vars

\* Local searches by every user under every explicit visibility filter,
\* one at a time, on the stored solution.
InitSearch ==
  /\ InitStores(VISIBILITY_VALUES, {0, 1}, {FALSE})
  /\ rt = RtIdle
  /\ acc = AccIdle
  /\ InitKeysPlain

NextSearch ==
  \/ \E u \in Users, visibility \in VisibilityFilters : StartSearch(u, visibility)
  \/ SearchAttempt
  \/ ensure_es_index

SpecSearch == InitSearch /\ [][NextSearch]_vars

\* =================================================================== claims
UpCount(sid) ==
  Cardinality({v \in votes : v.solution_id = sid /\ v.value = 1})

DownCount(sid) ==
  Cardinality({v \in votes : v.solution_id = sid /\ v.value = 0 - 1})

AggregatesMatch(sid) ==
  /\ ledger[sid].upvotes = UpCount(sid)
  /\ ledger[sid].downvotes = DownCount(sid)

\* C1: a create whose index write failed ends with no ledger row of its
\* own, whatever the outcome of the compensating delete.
C1_NoOrphanLedgerRow ==
  \A r \in Reqs :
    (rq[r].op = "create" /\ Done(r) /\ rq[r].esFailed)
      => rq[r].sid \notin DOMAIN ledger

\* C2: under concurrent creates of a key with daily limit N the key never
\* owns more than N rows; the count and the insert of one request are not
\* interleaved with those of another request of the key; a request sees 429
\* exactly when its count had reached N; and, as long as no create of the
\* key has deleted its row again, two requests that inserted a row never
\* passed the check on the same count.
Inserted(r) == rq[r].op = "create" /\ rq[r].sid \in DOMAIN ledger

Compensated(r) ==
  /\ rq[r].op = "create" /\ Done(r) /\ rq[r].outcome = "502"
  /\ rq[r].sid \notin DOMAIN ledger

InCritical(r) == rq[r].op = "create" /\ rq[r].pc \in {"c_count", "c_insert"}

C2_QuotaSerialized ==
  /\ \A k \in Keys :
       KeyDailyLimit(k) # NoLimit => CountSolutionsSince(k) <= KeyDailyLimit(k)
  /\ \A r1, r2 \in Reqs :
       (r1 # r2 /\ rq[r1].key = rq[r2].key /\ KeyDailyLimit(rq[r1].key) # NoLimit)
         => /\ ~(InCritical(r1) /\ InCritical(r2))
            /\ (/\ Inserted(r1) /\ Inserted(r2)
                /\ \A r \in Reqs : rq[r].key = rq[r1].key => ~Compensated(r))
                 => rq[r1].seen # rq[r2].seen
  /\ \A r \in Reqs :
       (rq[r].op = "create" /\ Done(r) /\ KeyDailyLimit(rq[r].key) # NoLimit)
         => (rq[r].outcome = "429" <=> rq[r].seen >= KeyDailyLimit(rq[r].key))

\* C2 happens: one create of the limited key stands, a concurrent one of the
\* same key was refused with 429, and the key is at its limit.
C2_Witness ==
  \E r1, r2 \in Reqs :
    /\ r1 # r2
    /\ rq[r1].key = 1 /\ rq[r2].key = 1
    /\ Done(r1) /\ rq[r1].outcome = "200" /\ rq[r1].sid \in DOMAIN ledger
    /\ Done(r2) /\ rq[r2].outcome = "429"
    /\ CountSolutionsSince(1) = DailyLimit

\* C3: with vote and clear-vote requests run one at a time, each solution's
\* upvotes and downvotes equal the numbers of its +1 and -1 vote rows.
C3_AggregatesMatchVotes == \A sid \in DOMAIN ledger : AggregatesMatch(sid)

\* C3 happens: a clear-vote has removed a row while a vote cast in this run
\* by another user stands.
C3_Witness ==
  /\ Done(1) /\ rq[1].op = "clear" /\ rq[1].outcome = "200" /\ rq[1].existing # 0
  /\ \E v \in votes : v.id > 0 /\ v.solution_id = rq[1].sid

\* C4: when two vote requests of different users on one solution have both
\* committed, the stored aggregates equal the counts of the vote rows.
Committed(r) ==
  /\ rq[r].op = "vote" /\ Done(r) /\ rq[r].outcome = "200"
  /\ rq[r].existing # rq[r].value

C4_NoLostUpdate ==
  \A r1, r2 \in Reqs :
    (/\ r1 # r2 /\ Committed(r1) /\ Committed(r2)
     /\ rq[r1].sid = rq[r2].sid /\ rq[r1].user # rq[r2].user
     /\ rq[r1].sid \in DOMAIN ledger)
      => AggregatesMatch(rq[r1].sid)

\* C5: no read operation returns a private solution to a context whose
\* api_key_ids lacks the solution's key.
Returned ==
  acc.list \/ acc.count > 0 \/ acc.fetch \/ acc.es_fetch \/ acc.search

ForeignPrivate ==
  /\ acc.evaluated
  /\ acc.row.visibility = VISIBILITY_PRIVATE
  /\ acc.row.api_key_id \notin acc.ids

C5_PrivateNeverReturned == ForeignPrivate => ~Returned

\* C5 as amended: the same for every context that is not an admin context.
C5_PrivateNeverReturnedNonAdmin ==
  (ForeignPrivate /\ ~acc.allow_admin) => ~Returned

\* C5 happens: a private solution of another key was asked for by a
\* non-admin context with keys of its own and allow_team set.
C5_Witness ==
  /\ ForeignPrivate /\ ~acc.allow_admin /\ acc.allow_team /\ acc.ids # {}
  /\ ~Returned

\* C6: when no request is in flight every index document has a ledger row.
C6_NoOrphanDocument == Quiescent => DOMAIN index \subseteq DOMAIN ledger

\* C7: a delete that reports the index rollback as restored leaves the row
\* and an index document equal to the one the index held before the delete.
C7_RestoredDocumentEqualsOriginal ==
  \A r \in Reqs :
    (rq[r].op = "delete" /\ Done(r) /\ rq[r].outcome = "500 restored")
      => /\ rq[r].sid \in DOMAIN ledger
         /\ DocOf(rq[r].sid) = rq[r].preIdx

\* C8: a visibility update run alone on a solution whose document agreed
\* with its row ends, unless it reports a failed rollback, with the
\* document's visibility equal to the row's.
VisibilityAgreed(r) ==
  \E d \in rq[r].preIdx : Term(d, "visibility", rq[r].sol.visibility)

C8_VisibilityAgrees ==
  \A r \in Reqs :
    (/\ rq[r].op = "visibility" /\ Done(r)
     /\ rq[r].outcome \notin {"404", "500 rollback failed"}
     /\ VisibilityAgreed(r))
      => /\ rq[r].sid \in DOMAIN index
         /\ rq[r].sid \in DOMAIN ledger
         /\ Term(index[rq[r].sid], "visibility", ledger[rq[r].sid].visibility)

\* C9: a vote request of the owner of the solution ends at once with 400,
\* changes neither store, and no vote row of an owner ever exists.
OwnVote(req) ==
  req.op = "vote" /\ req.sol # NoSol /\ req.sol.user_id = req.user

C9_OwnerVoteRejected ==
  /\ [](\A r \in Reqs : OwnVote(rq[r]) => (Done(r) /\ rq[r].outcome = "400"))
  /\ [](\A v \in votes :
          v.solution_id \in DOMAIN ledger
            => ledger[v.solution_id].user_id # v.user_id)
  /\ [][\A r \in Reqs :
          (Idle(r) /\ OwnVote(rq'[r]))
            => (ledger' = ledger /\ votes' = votes /\ index' = index)]_vars

\* C9 happens: the owner has asked to vote on the owner's solution.
C9_Witness ==
  \E r \in Reqs : OwnVote(rq[r]) /\ rq[r].value \in {0 - 1, 1} /\ Done(r)

\* C10: after a first cast, a change to the opposite vote and a clear by one
\* user, the aggregates are those before the cast and the user has no row.
C10_RoundTrip ==
  rt.stage = 3
    => /\ rt.sid \in DOMAIN ledger
       /\ ledger[rt.sid].upvotes = rt.up0
       /\ ledger[rt.sid].downvotes = rt.down0
       /\ VoteRows(rt.sid, rt.user) = {}

\* C10 happens: a round trip has completed on a solution that carried
\* another user's vote before it began.
C10_Witness == rt.stage = 3 /\ rt.up0 + rt.down0 > 0

\* C11: a (solution, user) pair never has two vote rows; the commit of a
\* first-time vote that finds a row of its pair (an overlapping first-time
\* vote of the same user committed first) fails and changes neither the vote
\* rows nor the aggregates, so of two such requests at most one commits and
\* the user's vote is counted once.
FirstVotePast(r) ==
  rq[r].op = "vote" /\ rq[r].existing = 0 /\ rq[r].pc \in {"vt_sync", "done"}
    /\ rq[r].outcome \notin {"404", "400"}

FirstVoteCommitted(r) ==
  FirstVotePast(r) /\ rq[r].outcome # "500"

C11_OneVotePerUser ==
  /\ [](\A sid \in SolIds, u \in Users : Cardinality(VoteRows(sid, u)) <= 1)
  /\ [](\A r1, r2 \in Reqs :
          (/\ r1 # r2 /\ rq[r1].user = rq[r2].user /\ rq[r1].sid = rq[r2].sid
           /\ FirstVotePast(r1) /\ FirstVotePast(r2))
            => ~(FirstVoteCommitted(r1) /\ FirstVoteCommitted(r2)))
  /\ [][\A r \in Reqs :
          (/\ rq[r].pc = "vt_commit" /\ rq'[r].pc # "vt_commit"
           /\ rq[r].existing = 0
           /\ VoteRows(rq[r].sid, rq[r].user) # {})
            => /\ votes' = votes /\ ledger' = ledger
               /\ rq'[r].pc = "done" /\ rq'[r].outcome = "500"]_vars

\* C11 happens: two first-time votes of one user on one solution overlapped;
\* one committed and the other was refused at its commit.
C11_Witness ==
  \E r1, r2 \in Reqs :
    /\ r1 # r2 /\ rq[r1].user = rq[r2].user /\ rq[r1].sid = rq[r2].sid
    /\ FirstVoteCommitted(r1) /\ Done(r1)
    /\ FirstVotePast(r2) /\ rq[r2].outcome = "500"
    /\ VoteRows(rq[r1].sid, rq[r1].user) # {}
    /\ AggregatesMatch(rq[r1].sid)

\* The secrets a request presents as API credentials, the rows they match
\* and the users those rows belong to, read from the tables directly.
Presented ==
  Range(sc.raw_keys) \cup (IF sc.bearer.kind = "opaque" THEN {sc.bearer.sub} ELSE {})

LiveRoot(c) == c \in DOMAIN api_keys /\ ~api_keys[c].revoked

LiveSub(c) ==
  /\ c \in DOMAIN sub_api_keys /\ ~sub_api_keys[c].revoked
  /\ LiveRoot(sub_api_keys[c].parent_api_key_id)

Live(c) == LiveRoot(c) \/ LiveSub(c)

OwnerOfCred(c) ==
  IF c \in DOMAIN sub_api_keys THEN sub_api_keys[c].user_id ELSE api_keys[c].user_id

\* The credential a write request is decided by: the raw key, or without
\* one the bearer value that is not a session token.
WriteCreds ==
  IF Len(sc.raw_keys) > 0 THEN Range(sc.raw_keys)
  ELSE IF sc.bearer.kind = "opaque" THEN {sc.bearer.sub} ELSE {}

ReadDone == sc.evaluated /\ sc.kind = "read"
WriteDone == sc.evaluated /\ sc.kind = "write"

\* C12: a read request presenting a live credential whose can_read is false
\* is refused with 403 and gets no context; a write request decided by a
\* live credential whose can_write is false is refused with 403; no write
\* context is ever resolved from a write-disabled key; and a refused
\* resolution leaves the ledger, the votes and the index as they were.
C12_PermissionFlagsEnforced ==
  /\ [](ReadDone =>
          ((\E c \in Presented : LiveSub(c) /\ ~sub_api_keys[c].can_read)
             => (sc.scope.status = 403 /\ sc.scope.api_key_ids = {})))
  /\ [](WriteDone =>
          /\ (/\ Len(sc.raw_keys) <= 1
              /\ \E c \in WriteCreds : LiveSub(c) /\ ~sub_api_keys[c].can_write)
               => (sc.scope.status = 403 /\ sc.scope.api_key_ids = {})
          /\ (sc.scope.status = 200 /\ sc.scope.write_key_id \in DOMAIN sub_api_keys)
               => sub_api_keys[sc.scope.write_key_id].can_write)
  /\ [][(sc'.evaluated /\ ~sc.evaluated /\ sc'.scope.status # 200)
          => (ledger' = ledger /\ votes' = votes /\ index' = index)]_vars

\* C12 happens: a write request decided by a live sub-key without write
\* access was refused with 403, and the same credentials, the sub-key having
\* no read access either, are refused with 403 for a read.
C12_Witness ==
  /\ WriteDone /\ sc.scope.status = 403
  /\ \E c \in WriteCreds :
       /\ LiveSub(c) /\ ~sub_api_keys[c].can_write /\ ~sub_api_keys[c].can_read
  /\ require_solution_read_scope(sc.bearer, sc.raw_keys).status = 403

\* C13: a resolved context has allow_admin exactly when its user is an admin
\* and the identity came from a session token verified in the request (the
\* write dependency reads the token only when no raw key is presented); a
\* context resolved from API credentials alone never has it.
IdentityFromBearer ==
  sc.bearer.kind = "jwt" /\ (sc.kind = "write" => Len(sc.raw_keys) = 0)

C13_AdminOnlyFromBearer ==
  (sc.evaluated /\ sc.scope.status = 200)
    => /\ sc.scope.allow_admin <=> (IsAdmin(sc.scope.user_id) /\ IdentityFromBearer)
       /\ sc.bearer.kind # "jwt" => ~sc.scope.allow_admin

\* C13 happens: a read context was resolved for an admin user from a bearer
\* value that failed decoding and matched the admin's root key.
C13_Witness ==
  /\ ReadDone /\ sc.scope.status = 200
  /\ sc.bearer.kind = "opaque" /\ LiveRoot(sc.bearer.sub)
  /\ IsAdmin(sc.scope.user_id) /\ ~sc.scope.allow_admin

\* C14: the api_key_ids of a read context resolved from API credentials are
\* the ids of the resolved keys and the active sub-keys of the resolved root
\* keys, and nothing else.
ResolvedCreds == {c \in Presented : Live(c)}

ExpectedKeyIds ==
  ResolvedCreds \cup
  {x \in DOMAIN sub_api_keys :
     /\ ~sub_api_keys[x].revoked
     /\ sub_api_keys[x].parent_api_key_id \in {c \in ResolvedCreds : LiveRoot(c)}}

C14_KeyIdsExpansion ==
  (ReadDone /\ sc.scope.status = 200 /\ ResolvedCreds # {})
    => sc.scope.api_key_ids = ExpectedKeyIds

\* C15: credentials of more than one user (keys of different users, or a
\* session token of one user with a key of another) are refused with 403
\* and give no context, for a read and for a write.
PresentedUsers ==
  {OwnerOfCred(c) : c \in ResolvedCreds} \cup
  (IF sc.bearer.kind = "jwt" THEN {sc.bearer.sub} ELSE {})

C15_MixedUsersRefused ==
  (sc.evaluated /\ Cardinality(PresentedUsers) > 1)
    => (sc.scope.status = 403 /\ sc.scope.api_key_ids = {})

\* A credential that revocation has reached: a revoked root key, a revoked
\* sub-key, or a sub-key of a revoked root key.
Dead(c) ==
  \/ c \in DOMAIN api_keys /\ api_keys[c].revoked
  \/ /\ c \in DOMAIN sub_api_keys
     /\ \/ sub_api_keys[c].revoked
        \/ api_keys[sub_api_keys[c].parent_api_key_id].revoked

RevokedStays ==
  /\ \A k \in DOMAIN api_keys :
       api_keys[k].revoked => (k \in DOMAIN api_keys' /\ api_keys'[k].revoked)
  /\ \A x \in DOMAIN sub_api_keys :
       sub_api_keys[x].revoked
         => (x \in DOMAIN sub_api_keys' /\ sub_api_keys'[x].revoked)

\* C16: no step clears a revoked flag; in every state the secret of a
\* credential that revocation has reached (a sub-key of a revoked root key
\* included) resolves to no KeyScope; and a request whose credentials are
\* all such secrets is answered 401 with no context.
C16_RevocationFinal ==
  /\ [][RevokedStays]_vars
  /\ [](\A c \in AllKeyIds : Dead(c) => resolve_api_keys({c}) = {})
  /\ [][(sc'.evaluated /\ ~sc.evaluated /\ Presented # {}
           /\ \A c \in Presented : Dead(c))
          => (sc'.scope.status = 401 /\ sc'.scope.api_key_ids = {})]_vars

\* A sub-key that was never revoked itself is presented alone after its
\* parent's revocation completed, and the request is answered 401.
C16_Witness ==
  /\ sc.evaluated /\ sc.scope.status = 401
  /\ kr.op = "revoke" /\ kr.outcome = "revoked"
  /\ \E c \in DOMAIN sub_api_keys :
       /\ Presented = {c}
       /\ ~sub_api_keys[c].revoked
       /\ sub_api_keys[c].parent_api_key_id = kr.key
       /\ api_keys[kr.key].revoked

\* Nothing of the solutions created with credential c is left in a store.
Cascaded(c) ==
  /\ \A i \in DOMAIN ledger : ledger[i].api_key_id # c
  /\ \A v \in votes : /\ v.solution_id \in DOMAIN ledger
                      /\ ledger[v.solution_id].api_key_id # c
  /\ \A i \in DOMAIN index : index[i].api_key_id # c

\* C17: when the revocation of a root key or of a sub-key has completed
\* successfully, no solution created with that key is left in the ledger,
\* no vote on such a solution is left, and no document of one is left in
\* the index.
C17_SolutionsCascade ==
  (kr.pc = "done" /\ kr.op \in {"revoke", "revoke_sub"} /\ kr.outcome = "revoked")
    => Cascaded(kr.key)

\* The same for root keys alone, where _cleanup_solutions_for_key runs.
RootKeyCascade ==
  (kr.pc = "done" /\ kr.op = "revoke" /\ kr.outcome = "revoked")
    => Cascaded(kr.key)

\* An explicit filter that the context cannot satisfy: team without
\* allow_team, or private without any key.
UnsatisfiableFilter ==
  \/ acc.filter = VISIBILITY_TEAM /\ ~acc.allow_team
  \/ acc.filter = VISIBILITY_PRIVATE /\ acc.ids = {}

LedgerUnsatisfiableFilterEmpty ==
  (acc.evaluated /\ ~acc.allow_admin /\ UnsatisfiableFilter)
    => (~acc.list /\ acc.count = 0)

\* The solution passes the explicit filter of the request, if any.
PassesFilter == acc.filter = "none" \/ acc.row.visibility = acc.filter

\* C19: a context with allow_admin is given every solution that passes the
\* explicit filter, by list, count, fetch-by-id, vote, index fetch and search.
C19_AdminSeesAll ==
  (acc.evaluated /\ acc.allow_admin)
    => /\ PassesFilter => (acc.list /\ acc.count = 1 /\ acc.search)
       /\ acc.fetch /\ acc.vote /\ acc.es_fetch

\* The index half of C19.
IndexAdminSeesAll ==
  (acc.evaluated /\ acc.allow_admin)
    => ((PassesFilter => acc.search) /\ acc.es_fetch)

\* The access predicate of the specification on the context and the row.
AccessPredicate ==
  \/ acc.row.visibility = VISIBILITY_PRIVATE /\ acc.row.api_key_id \in acc.ids
  \/ acc.row.visibility = VISIBILITY_TEAM /\ acc.allow_team
  \/ acc.allow_admin

\* C20: list and count (without an explicit filter), fetch-by-id, vote and
\* delete admit the solution exactly when the access predicate of the
\* context accepts it.
C20_OnePredicate ==
  acc.evaluated
    => /\ acc.filter = "none" => (acc.list <=> AccessPredicate)
       /\ acc.filter = "none" => ((acc.count = 1) <=> AccessPredicate)
       /\ acc.fetch <=> AccessPredicate
       /\ acc.vote <=> AccessPredicate
       /\ acc.delete <=> AccessPredicate

\* C20 without delete and without admin contexts.
ReadsFollowPredicate ==
  (acc.evaluated /\ ~acc.allow_admin)
    => /\ acc.filter = "none" => (acc.list <=> AccessPredicate)
       /\ acc.filter = "none" => ((acc.count = 1) <=> AccessPredicate)
       /\ acc.fetch <=> AccessPredicate
       /\ acc.vote <=> AccessPredicate

\* A create that returned successfully.
Created(r) == rq[r].op = "create" /\ Done(r) /\ rq[r].outcome = "200"

\* C21: while a create is at its embedding block, the step to the index
\* write is possible for every outcome of the embedding call (vector,
\* provider error, timeout); and when a create has returned successfully the
\* status it reports and the ledger holds is done if a vector was obtained,
\* failed if the call raised or timed out, skipped if vector search is off,
\* never pending or processing.
C21_EmbeddingNeverBlocks ==
  \A r \in Reqs :
    /\ rq[r].pc = "c_embed" =>
         \A result \in (IF knn THEN EmbedResults ELSE {"none"}) :
           ENABLED (CreateEmbedOutcome(r, result, TRUE) /\ rq'[r].pc = "c_index")
    /\ Created(r) =>
         LET st == rq[r].sol.embedding_status
         IN /\ st = IF ~knn THEN "skipped"
                    ELSE IF rq[r].embedding THEN "done" ELSE "failed"
            /\ st = "failed" <=> rq[r].sol.embedding_error # ""
            /\ rq[r].sid \in DOMAIN ledger
            /\ ledger[rq[r].sid].embedding_status = st
            /\ rq[r].sid \in DOMAIN index

\* A create whose embedding call raised or timed out returned successfully:
\* the row is failed with the error recorded and its document is in the
\* index, without an embedding.
C21_Witness ==
  \E r \in Reqs :
    /\ Created(r) /\ knn
    /\ ledger[rq[r].sid].embedding_status = "failed"
    /\ ledger[rq[r].sid].embedding_error = EmbeddingError("timeout")
    /\ rq[r].sid \in DOMAIN index
    /\ "embedding" \notin DOMAIN index[rq[r].sid]

\* Solution sid was created by a request that returned successfully with
\* the embedding call having raised or timed out, and its row is failed.
FailedByCreate(sid) ==
  /\ \E r \in Reqs : Created(r) /\ rq[r].sid = sid
                     /\ rq[r].sol.embedding_status = "failed"
  /\ sid \in DOMAIN ledger
  /\ ledger[sid].embedding_status = "failed"

\* The row of sid is done and its index document carries the embedding.
Embedded(sid) ==
  /\ sid \in DOMAIN ledger
  /\ ledger[sid].embedding_status = "done"
  /\ sid \in DOMAIN index
  /\ "embedding" \in DOMAIN index[sid]

\* C22: every solution left failed by a create whose embedding call failed
\* is eventually processed by a background job: its row reaches done and
\* its index document gains the embedding.
C22_FailedEventuallyDone ==
  \A sid \in SolIds : FailedByCreate(sid) ~> Embedded(sid)

\* The worker takes the job while the row of its solution is done.
LoadsDone ==
  /\ jb.pc = "queued"
  /\ RowPresent(jb.sid)
  /\ ledger[jb.sid].embedding_status = "done"

\* C23: an execution of the background job on a solution that is done ends
\* at once without an error and leaves the row (embedding, status, last
\* error, timestamp) and the index document as they were, at every
\* delivery.
C23_DoneIdempotent ==
  [][(LoadsDone /\ JobLoad)
       => /\ jb'.pc = "succeeded"
          /\ jb'.error = ""
          /\ ledger' = ledger
          /\ index' = index]_vars

\* The job was delivered a second time for a solution whose create had
\* left it done, and succeeded: the row is still the one the create
\* committed and the document still carries the create's embedding.
C23_Witness ==
  \E r \in Reqs :
    /\ Created(r)
    /\ jb.sid = rq[r].sid
    /\ jb.pc = "succeeded"
    /\ jb.deliveries >= 2
    /\ jb.runs = 1
    /\ ledger[jb.sid] = rq[r].sol
    /\ ledger[jb.sid].embedding_status = "done"
    /\ "embedding" \in DOMAIN index[jb.sid]

\* The status changes of the state machine; the move to skipped is there
\* when vector search is off.
StatusMachine ==
  {<<"pending", "processing">>, <<"processing", "done">>,
   <<"processing", "failed">>}
    \cup (IF knn THEN {} ELSE {<<"pending", "skipped">>})

\* C24: every change of a row's embedding_status, by a create or by the
\* background job, is pending to processing, processing to done, processing
\* to failed, or the move to skipped when vector search is disabled.
C24_StatusMachine ==
  [][\A sid \in DOMAIN ledger \cap DOMAIN ledger' :
       \/ ledger'[sid].embedding_status = ledger[sid].embedding_status
       \/ <<ledger[sid].embedding_status, ledger'[sid].embedding_status>>
            \in StatusMachine]_vars

\* C25: skipped is terminal: no step of any operation, a background job
\* delivered for the solution included, changes the embedding_status of a
\* row that is skipped.
C25_SkippedTerminal ==
  [][\A sid \in DOMAIN ledger \cap DOMAIN ledger' :
       ledger[sid].embedding_status = "skipped"
         => ledger'[sid].embedding_status = "skipped"]_vars

\* C26: a job is executed at most 1 + EMBEDDING_RETRY_MAX times, and when
\* its last execution has failed and the job has stopped, the row is failed
\* with the error of that last execution, not left in processing.
C26_RetriesBounded ==
  /\ jb.runs <= 1 + EMBEDDING_RETRY_MAX
  /\ (jb.pc = "stopped" /\ RowPresent(jb.sid))
       => /\ ledger[jb.sid].embedding_status = "failed"
          /\ ledger[jb.sid].embedding_error = jb.error

\* The first half of C26 alone: the number of executions of a job.
ExecutionsBounded == jb.runs <= 1 + EMBEDDING_RETRY_MAX

\* The last clause of C26 alone: a job that has stopped has not left its
\* row in processing.
NeverLeftProcessing ==
  (jb.pc = "stopped" /\ RowPresent(jb.sid))
    => ledger[jb.sid].embedding_status # "processing"

\* Request r is at the index update that follows the commit of a set-vote
\* or of a clear-vote.
AtVoteSync(r) == rq[r].pc \in {"vt_sync", "cl_sync"}

\* C27: the step that follows the committed set-vote or clear-vote ends the
\* request with a success carrying the aggregates of the session's row,
\* whether or not the index update failed; it writes neither the ledger nor
\* the votes, and a failed update leaves the index as it was.
C27_VoteSyncBestEffort ==
  [][\A r \in Reqs :
       (AtVoteSync(r) /\ rq'[r] # rq[r])
         => /\ rq'[r].pc = "done"
            /\ rq'[r].outcome = "200"
            /\ rq'[r].sol = rq[r].sol
            /\ ledger' = ledger
            /\ votes' = votes
            /\ rq'[r].esFailed => index' = index]_vars

\* A vote was committed, the index update failed and the request returned
\* success: the vote row and the ledger's aggregates are there, the response
\* carries them, and the index document still has the old count.
C27_Witness ==
  \E r \in Reqs :
    /\ Done(r) /\ rq[r].op = "vote" /\ rq[r].esFailed
    /\ rq[r].outcome = "200"
    /\ \E v \in votes : v.solution_id = rq[r].sid /\ v.user_id = rq[r].user
                        /\ v.value = rq[r].value
    /\ rq[r].sid \in DOMAIN ledger
    /\ ledger[rq[r].sid].upvotes = rq[r].sol.upvotes
    /\ ledger[rq[r].sid].downvotes = rq[r].sol.downvotes
    /\ rq[r].sid \in DOMAIN index
    /\ index[rq[r].sid].upvotes # ledger[rq[r].sid].upvotes

\* Request r has changed one store and not yet the other: a create after
\* its insert, a delete after the index delete, a visibility update after
\* the index update.
PartiallyCompleted(r) ==
  rq[r].pc \in {"c_embed", "c_index", "c_comp", "d_db", "d_reindex",
                "v_db", "v_rollback"}

\* Request r is at its compensating action.
Compensating(r) == rq[r].pc \in {"c_comp", "d_reindex", "v_rollback"}

\* The compensating step of r undid the partial change: the created row is
\* gone, the deleted document is back, the document has the old visibility.
RolledBack(r) ==
  IF rq[r].pc = "c_comp" THEN rq[r].sid \notin DOMAIN ledger'
  ELSE IF rq[r].pc = "d_reindex" THEN rq[r].sid \in DOMAIN index'
  ELSE /\ rq[r].sid \in DOMAIN index'
       /\ index'[rq[r].sid].visibility = rq[r].sol.visibility

\* What a failure response says about the rollback.
SaysRestored(outcome) == outcome = "500 restored"
SaysRollbackFailed(outcome) == outcome = "500 rollback failed"

\* C28: a failure response of a create, delete or visibility update that
\* had changed one store is produced by its compensating step, and says
\* that the change was rolled back exactly when it was and that the
\* rollback failed exactly when it did.
C28_FailureStatesRollback ==
  [][\A r \in Reqs :
       (PartiallyCompleted(r) /\ rq'[r].pc = "done" /\ rq'[r].outcome # "200")
         => /\ Compensating(r)
            /\ SaysRestored(rq'[r].outcome) <=> RolledBack(r)
            /\ SaysRollbackFailed(rq'[r].outcome) <=> ~RolledBack(r)]_vars

\* C28 for delete and visibility update only.
DeleteAndVisibilityStateRollback ==
  [][\A r \in Reqs :
       (rq[r].op # "create" /\ PartiallyCompleted(r) /\ rq'[r].pc = "done"
          /\ rq'[r].outcome # "200")
         => /\ Compensating(r)
            /\ SaysRestored(rq'[r].outcome) <=> RolledBack(r)
            /\ SaysRollbackFailed(rq'[r].outcome) <=> ~RolledBack(r)]_vars

\* The caller of request q has access to the row its id names: read access
\* for fetch, vote and clear-vote, ownership for delete and visibility
\* update.
HasAccess(q) ==
  /\ q.sid \in DOMAIN ledger
  /\ IF q.op \in {"fetch", "vote", "clear"}
       THEN \/ ledger[q.sid].visibility = VISIBILITY_TEAM
            \/ ledger[q.sid].api_key_id \in q.ids
       ELSE q.admin \/ ledger[q.sid].api_key_id \in q.ids

\* What the caller of a finished request gets back.
Response(q) == <<q.outcome, q.sol>>

\* C29: a fetch, vote, clear-vote, delete or visibility update for an id
\* that names no row, or a row outside the caller's access, ends at once:
\* the response is 404 with nothing of the row in it, the same in both
\* cases, and neither the ledger, the votes nor the index change.
C29_ExistenceNotLeaked ==
  [][\A r \in Reqs :
       (Idle(r) /\ ~Idle(r)'
          /\ rq'[r].op \in {"fetch", "vote", "clear", "delete", "visibility"}
          /\ ~HasAccess(rq'[r]))
         => /\ Done(r)'
            /\ Response(rq'[r]) = <<"404", NoSol>>
            /\ UNCHANGED <<ledger, votes, index>>]_vars

\* Two requests of the same kind by the same caller have finished, one for
\* a stored row outside the caller's access and one for an id that names no
\* row, with the same response, and the row is still there.
C29_Witness ==
  \E r, q \in Reqs :
    /\ Done(r) /\ Done(q)
    /\ rq[r].op = "delete" /\ rq[q].op = "delete"
    /\ rq[r].ids = rq[q].ids
    /\ rq[r].sid \in DOMAIN ledger /\ ~HasAccess(rq[r])
    /\ rq[q].sid \notin DOMAIN ledger
    /\ Response(rq[r]) = Response(rq[q])
    /\ rq[r].outcome = "404"
    /\ rq[r].sid \in DOMAIN index

\* C30: a federated search request leaves the process only for a host of
\* the allow-list or, when no allow-list is configured, for a loopback
\* host; a request that was refused sent nothing.
C30_PeerHostRestricted ==
  rm.evaluated
    => /\ rm.outcome \in {"400", "401", "403"} => rm.sent_to = ""
       /\ rm.sent_to # ""
            => IF rm.REMOTE_CONTEXT8_ALLOWED_HOSTS # {}
                 THEN rm.sent_to \in rm.REMOTE_CONTEXT8_ALLOWED_HOSTS
                 ELSE _is_local_host(rm.sent_to)

\* C30 with an allow-list configured.
AllowListRespected ==
  (rm.evaluated /\ rm.sent_to # "" /\ rm.REMOTE_CONTEXT8_ALLOWED_HOSTS # {})
    => rm.sent_to \in rm.REMOTE_CONTEXT8_ALLOWED_HOSTS

\* A request sent to a host that is neither loopback nor allow-listed went
\* to the configured base.
OnlyConfiguredBaseEscapes ==
  (rm.evaluated /\ rm.sent_to # "" /\ rm.REMOTE_CONTEXT8_ALLOWED_HOSTS = {}
     /\ ~_is_local_host(rm.sent_to))
    => rm.sent_to = _host_from_base(_normalize_base(rm.REMOTE_CONTEXT8_BASE))

\* C31: a local search makes at most two index queries and at most one
\* repair; the repair follows only a missing index on the first attempt and
\* is followed by at most one more query; a timeout, any other failure or a
\* failure of the second attempt ends the request with 502 or 503.
C31_BoundedSearchRetry ==
  /\ se.queries <= 2
  /\ se.repairs <= 1
  /\ se.repairs = 1 => se.queries >= 1
  /\ se.pc = "ensure" => (se.attempt = 1 /\ se.queries = 1 /\ se.repairs = 0)
  /\ se.pc = "query" => se.queries = se.attempt - 1
  /\ (se.pc = "done" /\ se.outcome # "200") => se.outcome \in {"502", "503"}
  /\ (se.pc = "done" /\ se.queries = 2) => se.repairs = 1
  /\ se.repairs = 1 => (se.queries = 1 => se.last = "missing")
  /\ se.pc = "ensure" => se.last = "missing"
  /\ (se.pc = "done" /\ se.last \in {"timeout", "none"}) => se.outcome = "503"
  /\ (se.pc = "done" /\ se.last \in {"missing", "error"}) => se.outcome = "502"
  /\ (se.pc = "done" /\ se.last = "response") => se.outcome = "200"

\* A search whose first query found the index missing repaired it, queried
\* once more, found it missing again and ended with 502.
C31_Witness ==
  /\ se.pc = "done"
  /\ se.queries = 2
  /\ se.repairs = 1
  /\ se.attempt = 2
  /\ se.last = "missing"
  /\ se.outcome = "502"

\* A team-visibility solution owned by key k, and its index document.
TeamRow(k) == Row(1, KeyOwner(k), k, VISIBILITY_TEAM, 0, 0, "skipped")

\* The read context c admits the team solution of every key, in the ledger
\* reads and in the index filter.
ReadsTeamSolutions(c) ==
  \A k \in Keys :
    /\ AccessConditions(c.api_key_ids, c.allow_team, TeamRow(k))
    /\ VisibilityCondition("none", c.api_key_ids, c.allow_team, TeamRow(k))
    /\ VisibilityCondition(VISIBILITY_TEAM, c.api_key_ids, c.allow_team, TeamRow(k))
    /\ BuildAccessFilter(c.api_key_ids, c.allow_team, c.allow_admin, "none",
                         solution_to_es_doc(TeamRow(k), FALSE))

\* C32: a read context that is returned has a user id and allow_team true,
\* and so admits every team-visibility solution whichever key owns it; a
\* read request in which no identity resolves (no verified token, no
\* presented key that is live) is refused with 401.
C32_ReadContextAllowsTeam ==
  ReadDone
    => /\ sc.scope.status = 200
            => /\ sc.scope.user_id # 0
               /\ sc.scope.allow_team
               /\ ReadsTeamSolutions(sc.scope)
       /\ (sc.bearer.kind # "jwt" /\ \A c \in Presented : ~Live(c))
            => sc.scope.status = 401

\* A read context was resolved from an API key alone, without a session
\* token, for a user other than the owner of key 1: it has allow_team and
\* admits the team solution of key 1.
C32_Witness ==
  /\ ReadDone /\ sc.scope.status = 200
  /\ sc.bearer.kind = "none"
  /\ \E c \in Presented : LiveRoot(c)
  /\ sc.scope.user_id # KeyOwner(1)
  /\ 1 \notin sc.scope.api_key_ids
  /\ sc.scope.allow_team
  /\ AccessConditions(sc.scope.api_key_ids, sc.scope.allow_team, TeamRow(1))

\* C33: when no request and no job is in flight, every solution whose
\* embedding_status is done has an index document that carries an
\* embedding.
C33_DoneHasIndexedEmbedding ==
  (Quiescent /\ JobAbsent)
    => \A sid \in DOMAIN ledger :
         ledger[sid].embedding_status = "done"
           => (sid \in DOMAIN index /\ "embedding" \in DOMAIN index[sid])

\* C33 for the solutions whose document is missing nothing but the
\* embedding: the row is done and the document is in the index.
DoneDocumentHasEmbedding ==
  (Quiescent /\ JobAbsent)
    => \A sid \in DOMAIN ledger \cap DOMAIN index :
         ledger[sid].embedding_status = "done"
           => "embedding" \in DOMAIN index[sid]

\* C34: for every context (api_key_ids, allow_team, allow_admin), every
\* explicit visibility filter and every solution, the ledger predicate
\* (_visibility_condition, as list and count apply it) admits the row
\* exactly when the index filter (_build_access_filter, as the search
\* applies it) admits the solution's document.
C34_LedgerAndIndexFilterAgree ==
  acc.evaluated => (acc.list <=> acc.search)

\* C34 for contexts that have allow_team and not allow_admin, the contexts
\* the read dependency resolves for callers that are not admins.
FiltersAgreeForPlainContexts ==
  (acc.evaluated /\ acc.allow_team /\ ~acc.allow_admin)
    => (acc.list <=> acc.search)

\* C35: when two overlapping visibility updates on one solution, each of
\* which selected the row and changed the document, have both ended and
\* neither reports a failed rollback, the visibility of the solution's
\* document equals the visibility of its row.
BothEnded(sid) ==
  /\ \A r \in {1, 2} : rq[r].op = "visibility" /\ Done(r) /\ rq[r].sid = sid
                       /\ rq[r].sol # NoSol /\ rq[r].sol.visibility # rq[r].vis
                       /\ rq[r].outcome \notin {"502", "500 rollback failed"}

C35_OverlappingUpdatesAgree ==
  \A sid \in Targets :
    BothEnded(sid)
      => /\ sid \in DOMAIN index
         /\ sid \in DOMAIN ledger
         /\ Term(index[sid], "visibility", ledger[sid].visibility)

\* C36: when the create request and the revocation have both ended, no
\* solution owned by a revoked root key exists in the ledger or in the
\* index.
OwnedBy(k) ==
  {i \in DOMAIN ledger : ledger[i].api_key_id = k}
    \cup {i \in DOMAIN index : index[i].api_key_id = k}

C36_RevokedKeyOwnsNothing ==
  \A k \in Keys :
    (Quiescent /\ KrFree /\ api_keys[k].revoked) => OwnedBy(k) = {}

\* C36 for a create that is accepted after the revocation has ended: it is
\* refused and nothing is stored.
CreateAfterRevokeRefused ==
  \A r \in Reqs :
    (rq[r].op = "create" /\ rq[r].outcome = "refused")
      => rq[r].sid = 0 /\ rq[r].pc = "done"

\* A root-key revocation that ended because a document delete or the ledger
\* transaction of the cleanup failed.
CleanupFailed ==
  /\ kr.op = "revoke" /\ kr.pc = "done"
  /\ kr.outcome = "502" \/ kr.restored > 0

\* C37: a root-key revocation whose cleanup failed ends with an error and
\* the key's revoked flag as before, every ledger row of the key is as the
\* cleanup selected it, no step of the failed cleanup changes the ledger or
\* the votes, and unless the error reports a failed rollback every document
\* the attempt deleted is in the index again.
C37_RevokeAllOrNothing ==
  /\ [](CleanupFailed =>
          /\ kr.outcome \in {"502", "500", "rollback_failed"}
          /\ ~api_keys[kr.key].revoked
          /\ \A i \in kr.items : i \in DOMAIN ledger /\ ledger[i] = kr.rows[i]
          /\ kr.outcome # "rollback_failed"
               => \A i \in Range(kr.deleted) :
                    /\ i \in DOMAIN index
                    /\ index[i] = solution_to_es_doc(kr.rows[i], FALSE))
  /\ [][(kr.pc \in {"es", "db", "restore"} /\ kr'.pc # "commit")
          => UNCHANGED <<ledger, votes, api_keys>>]_vars

C37_Witness ==
  /\ CleanupFailed /\ kr.outcome = "500"
  /\ \E v \in votes : v.solution_id \in kr.items
  /\ Range(kr.deleted) # {} /\ Range(kr.deleted) \subseteq DOMAIN index

\* The keys whose solutions a write request presented with key c may touch:
\* a sub-key its own, a root key its own and its active sub-keys'.
WritableOwners(c) ==
  IF c \in DOMAIN sub_api_keys THEN {c}
  ELSE {c} \cup list_active_sub_api_keys({c})

\* C38: a delete or visibility update that got a write context has
\* api_key_ids = {the sub-key} under a sub-key and the root key with its
\* active sub-keys under a root key; it is answered 404 exactly when the
\* solution is not owned by one of those keys, a request answered 404 or
\* refused changes no store, and a request that went on holds a row of
\* one of those keys.
C38_DelegatedWriteScope ==
  /\ [](\A r \in Reqs :
          (rq[r].op \in {"delete", "visibility"} /\ rq[r].outcome # "refused")
            => /\ rq[r].ids = WritableOwners(rq[r].key)
               /\ rq[r].outcome = "404"
                    <=> OwnedRow(rq[r].sid, WritableOwners(rq[r].key), FALSE) = NoSol
                        /\ rq[r].sol = NoSol
               /\ rq[r].sol # NoSol
                    => rq[r].sol.api_key_id \in WritableOwners(rq[r].key))
  /\ [][\A r \in Reqs :
          (rq[r].pc = "idle" /\ rq'[r].outcome \in {"404", "refused"})
            => UNCHANGED <<ledger, votes, index>>]_vars

\* A sub-key is answered 404 on its parent's solution, after the parent
\* root key has deleted the solution of an active sub-key that cannot write.
C38_Witness ==
  /\ rq[1].op = "delete" /\ rq[1].key \in Siblings /\ rq[1].outcome = "404"
  /\ rq[1].sid \in DOMAIN ledger /\ ledger[rq[1].sid].api_key_id = 1
  /\ \E i \in DOMAIN Owners :
       /\ Owners[i] \in Siblings /\ i \notin DOMAIN ledger /\ i \notin DOMAIN index
       /\ ~sub_api_keys[Owners[i]].can_write

\* C39: when no request is in flight, every vote row references a solution
\* that has a ledger row.
C39_VotesReferenceSolutions ==
  (Quiescent /\ KrFree) => \A v \in votes : v.solution_id \in DOMAIN ledger

\* C40: every stored sub-key has can_read = true; the normalisation gives
\* read and write for a request of write without read and refuses a request
\* with both permissions off; a sub-key request answered 400 leaves the
\* sub-key table as it was.
C40_StoredSubKeysCanRead ==
  /\ [](/\ \A x \in DOMAIN sub_api_keys : sub_api_keys[x].can_read
        /\ \A cw \in PermInputs \ {"no"} :
             LET p == normalize_permissions("no", cw)
             IN p.ok /\ p.can_read /\ p.can_write
        /\ ~normalize_permissions("no", "no").ok)
  /\ [][(kr' # kr /\ kr'.op \in {"create_sub", "update_sub"} /\ kr'.outcome = "400")
          => UNCHANGED sub_api_keys]_vars

\* An update that would have left both permissions off was refused with 400
\* on a stored sub-key that may read but not write.
C40_Witness ==
  /\ kr.op = "update_sub" /\ kr.pc = "done" /\ kr.outcome = "400"
  /\ kr.key \in DOMAIN sub_api_keys
  /\ sub_api_keys[kr.key].can_read /\ ~sub_api_keys[kr.key].can_write
====
